---- MODULE Spec2Model ----
(***************************************************************************)
(* State-machine model of the awakening enhancement engine                 *)
(* (packages/simulator/src/simulator.ts) and of its batch runners.         *)
(*                                                                         *)
(* Probabilities and generator draws are integers in 1/Scale units: the    *)
(* draw d stands for the float d / Scale in [0,1) and a rate r for         *)
(* r / Scale, so `rng() < rate` is `d < r`.  A seed stands for the draw    *)
(* sequence the seeded generator derives from it; the sequence is periodic *)
(* (period TapeLen here, 2^32 for Mulberry32).                             *)
(***************************************************************************)
EXTENDS Integers, Sequences, FiniteSets, TLC

VARIABLES cfg, seed, eng, run, last, sims, report, store, ring, pushed

vars == <<cfg, seed, eng, run, last, sims, report, store, ring, pushed>>

\* ------------------------------------------------------------- bounds
TapeLen == 3
MaxAttempts == 12
CrystalCap == 2
ScrollCap == 300
ValksCap == 1
MaxSims == 3
MaxSubAttempts == 300
MaxSaves == 5
MaxCapacity == 3
MaxPushes == 5
LiveCap == 2

\* ---------------------------------------------------- probability table
Scale == 10000

ENHANCEMENT_RATES == <<7000, 6000, 4000, 2000, 1000, 700, 500, 300, 100, 50>>

ANVIL_THRESHOLDS == <<0, 0, 2, 3, 5, 8, 10, 17, 50, 100>>

RESTORATION_SUCCESS_RATE == 5000
RESTORATION_PER_ATTEMPT == 200
RESTORATION_MARKET_BUNDLE_SIZE == 200000
HEPTA_OKTA_SUCCESS_RATE == 600
HEPTA_SUB_ENHANCEMENTS == 5
OKTA_SUB_ENHANCEMENTS == 10
HEPTA_OKTA_ANVIL_PITY == 17
HEPTA_OKTA_CRYSTALS_PER_ATTEMPT == 15

EXQUISITE_BLACK_CRYSTAL_RECIPE ==
    [restorationScrolls |-> 1050, valks100 |-> 2, pristineBlackCrystal |-> 30]

\* Valks multipliers in tenths: 11 is x1.1, 15 is x1.5, 20 is x2.0.
VALKS_MULTIPLIER_10 == 11
VALKS_MULTIPLIER_50 == 15
VALKS_MULTIPLIER_100 == 20

\* The settings the constructor falls back to when config.gameSettings is
\* undefined.
DEFAULT_GAME_SETTINGS ==
    [enhancementRates |-> ENHANCEMENT_RATES,
     anvilThresholds |-> ANVIL_THRESHOLDS,
     heptaSubEnhancements |-> HEPTA_SUB_ENHANCEMENTS,
     oktaSubEnhancements |-> OKTA_SUB_ENHANCEMENTS,
     heptaOktaSuccessRate |-> HEPTA_OKTA_SUCCESS_RATE,
     heptaOktaAnvilPity |-> HEPTA_OKTA_ANVIL_PITY,
     heptaOktaCrystalsPerAttempt |-> HEPTA_OKTA_CRYSTALS_PER_ATTEMPT,
     exquisiteRecipe |-> EXQUISITE_BLACK_CRYSTAL_RECIPE,
     enhancementCostPerAttempt |-> 0]

\* Game settings as the settings page edits them: the defaults with an
\* enhancement cost per attempt.
CustomGameSettings ==
    [DEFAULT_GAME_SETTINGS EXCEPT !.enhancementCostPerAttempt = 2]

\* ------------------------------------------------------------ helpers
Min(a, b) == IF a < b THEN a ELSE b

Max(a, b) == IF a > b THEN a ELSE b

\* An optional value (`x?: number`): {} is undefined, {v} is v.
Defined(x) == x # {}
Val(x) == CHOOSE v \in x : TRUE

\* Record<number, number> read with `?? dflt`.
Get(m, k, dflt) == IF k \in DOMAIN m THEN m[k] ELSE dflt

\* m[k] = v on a sparse Record<number, number>.
Put(m, k, v) == [x \in (DOMAIN m) \cup {k} |-> IF x = k THEN v ELSE m[x]]

\* ------------------------------------------------------------ generator
DrawSet == {0, 5000, Scale - 1}

Seeds == [0 .. TapeLen - 1 -> DrawSet]

\* createRng testing `!seed` instead of `seed === undefined`: the seed whose
\* sequence is all zeros is taken for a missing one and gets Math.random.
createRngFalsySeed(s) ==
    IF s = {} \/ s = {[k \in 0 .. TapeLen - 1 |-> 0]}
    THEN [seeded |-> FALSE, tape |-> <<>>, pos |-> 0]
    ELSE [seeded |-> TRUE, tape |-> Val(s), pos |-> 0]

\* createRng(seed): Math.random without a seed (every call may return any
\* value), else the seeded generator at the start of its sequence.
createRng(s) ==
    IF s = {} THEN [seeded |-> FALSE, tape |-> <<>>, pos |-> 0]
    ELSE [seeded |-> TRUE, tape |-> Val(s), pos |-> 0]

\* The values the k-th next call of rng() may return.
rngDraws(r, k) ==
    IF r.seeded THEN {r.tape[(r.pos + k) % TapeLen]} ELSE DrawSet

\* The generator after n calls.
rngAdvance(r, n) ==
    IF r.seeded THEN [r EXCEPT !.pos = (@ + n) % TapeLen] ELSE r

\* ------------------------------------------------- constructor caches
\* config.gameSettings ?? DEFAULT_GAME_SETTINGS
GS(c) == IF c.gameSettings = {} THEN DEFAULT_GAME_SETTINGS ELSE Val(c.gameSettings)

getRestorationAttemptCost(bundlePrice) ==
    IF bundlePrice = 0 THEN 0
    ELSE (RESTORATION_PER_ATTEMPT * bundlePrice) \div RESTORATION_MARKET_BUNDLE_SIZE

\* The cached attempt cost computed per scroll, not per attempt.
restorationAttemptCostPerScroll(c) ==
    c.prices.restorationBundlePrice \div RESTORATION_MARKET_BUNDLE_SIZE

restorationAttemptCost(c) == getRestorationAttemptCost(c.prices.restorationBundlePrice)

rateCache(c) == GS(c).enhancementRates

\* Math.min(1.0, rate * multiplier) for every level of the rate table.
rateCacheValks(c, mult) ==
    [l \in DOMAIN GS(c).enhancementRates |->
        Min(Scale, (GS(c).enhancementRates[l] * mult) \div 10)]

rateCacheValks10(c) == rateCacheValks(c, VALKS_MULTIPLIER_10)
rateCacheValks50(c) == rateCacheValks(c, VALKS_MULTIPLIER_50)
rateCacheValks100(c) == rateCacheValks(c, VALKS_MULTIPLIER_100)

exquisiteCost(c) ==
    ((GS(c).exquisiteRecipe.restorationScrolls * c.prices.restorationBundlePrice)
        \div RESTORATION_MARKET_BUNDLE_SIZE)
    + GS(c).exquisiteRecipe.valks100 * c.prices.valks100Price
    + GS(c).exquisiteRecipe.pristineBlackCrystal * c.prices.crystalPrice

enhancementCost(c) == GS(c).enhancementCostPerAttempt

\* ---------------------------------------------------------- the engine
\* reset() leaving the pity energy in place.
resetKeepsAnvilEnergy(c, e) ==
    [e EXCEPT !.level = c.startLevel,
              !.crystals = 0,
              !.scrolls = 0,
              !.silver = 0,
              !.exquisiteCrystals = 0,
              !.valks10Used = 0,
              !.valks50Used = 0,
              !.valks100Used = 0,
              !.attempts = 0,
              !.heptaProgress = c.startHepta,
              !.oktaProgress = c.startOkta,
              !.heptaPity = 0,
              !.oktaPity = 0]

reset(c, e) ==
    [e EXCEPT !.level = c.startLevel,
              !.anvilEnergy = <<>>,
              !.crystals = 0,
              !.scrolls = 0,
              !.silver = 0,
              !.exquisiteCrystals = 0,
              !.valks10Used = 0,
              !.valks50Used = 0,
              !.valks100Used = 0,
              !.attempts = 0,
              !.heptaProgress = c.startHepta,
              !.oktaProgress = c.startOkta,
              !.heptaPity = 0,
              !.oktaPity = 0]

\* new AwakeningEngine(config, seed): the field initialisers, the generator,
\* then reset().
Engine(c, s) ==
    reset(c, [rng |-> createRng(s),
              level |-> 0, anvilEnergy |-> <<>>, crystals |-> 0, scrolls |-> 0,
              silver |-> 0, exquisiteCrystals |-> 0, valks10Used |-> 0,
              valks50Used |-> 0, valks100Used |-> 0, attempts |-> 0,
              heptaProgress |-> 0, oktaProgress |-> 0, heptaPity |-> 0,
              oktaPity |-> 0])

\* isComplete with `>` for `>=`.
isCompleteStrict(c, e) == e.level > c.targetLevel

\* isComplete never reporting completion.
isCompleteNever(c, e) == FALSE

isComplete(c, e) == e.level >= c.targetLevel

getStats(e) ==
    [crystals |-> e.crystals, scrolls |-> e.scrolls, silver |-> e.silver,
     exquisiteCrystals |-> e.exquisiteCrystals, valks10Used |-> e.valks10Used,
     valks50Used |-> e.valks50Used, valks100Used |-> e.valks100Used,
     attempts |-> e.attempts]

\* shouldUseHepta that looks at the flag only, not at progress already made.
shouldUseHeptaFlagOnly(c, e) ==
    /\ c.useHepta
    /\ e.level = 7
    /\ e.heptaProgress < GS(c).heptaSubEnhancements

\* shouldUseHepta looking at the progress only, not at the flag.
shouldUseHeptaProgressOnly(c, e) ==
    /\ e.heptaProgress > 0
    /\ e.level = 7
    /\ e.heptaProgress < GS(c).heptaSubEnhancements

shouldUseHepta(c, e) ==
    /\ (c.useHepta \/ e.heptaProgress > 0)
    /\ e.level = 7
    /\ e.heptaProgress < GS(c).heptaSubEnhancements

shouldUseOkta(c, e) ==
    /\ (c.useOkta \/ e.oktaProgress > 0)
    /\ e.level = 8
    /\ e.oktaProgress < GS(c).oktaSubEnhancements

\* The StepResult of a call, with how the call ended: "ok" (returned), "threw",
\* or "none" before the first call.
NoStep ==
    [call |-> "none", success |-> FALSE, anvilTriggered |-> FALSE,
     startingLevel |-> 0, endingLevel |-> 0, valksUsed |-> "null",
     restorationAttempted |-> FALSE, restorationSuccess |-> FALSE,
     isHeptaOkta |-> FALSE, subProgress |-> 0, subPity |-> 0,
     pathComplete |-> FALSE, pathName |-> ""]

Threw == [NoStep EXCEPT !.call = "threw"]

\* pathComplete with `>` for `>=`.
pathCompleteLate(newProgress, maxProgress) == newProgress > maxProgress

\* `const pathComplete = newProgress >= maxProgress`
pathCompleteOf(newProgress, maxProgress) == newProgress >= maxProgress

\* The sub-path pity never forcing a success.
subAnvilNever(currentPity, g) == FALSE

\* `const anvilTriggered = currentPity >= this.heptaOktaAnvilPity`
subAnvilTriggered(currentPity, g) == currentPity >= g.heptaOktaAnvilPity

\* performHeptaOktaStep(isOkta); d is the value rng() returns if it is called.
performHeptaOktaStep(c, e, isOkta, d) ==
    LET g == GS(c)
        pathName == IF isOkta THEN "Okta" ELSE "Hepta"
        currentProgress == IF isOkta THEN e.oktaProgress ELSE e.heptaProgress
        currentPity == IF isOkta THEN e.oktaPity ELSE e.heptaPity
        maxProgress == IF isOkta THEN g.oktaSubEnhancements ELSE g.heptaSubEnhancements
        e1 == [e EXCEPT !.exquisiteCrystals = @ + g.heptaOktaCrystalsPerAttempt,
                        !.silver = @ + exquisiteCost(c) * g.heptaOktaCrystalsPerAttempt,
                        !.attempts = @ + 1]
        anvilTriggered == subAnvilTriggered(currentPity, g)
        e2 == [e1 EXCEPT !.rng = rngAdvance(@, IF anvilTriggered THEN 0 ELSE 1)]
        newProgress == currentProgress + 1
        pathComplete == pathCompleteOf(newProgress, maxProgress)
        targetLvl == IF isOkta THEN 9 ELSE 8
    IN  IF anvilTriggered \/ d < g.heptaOktaSuccessRate
        THEN LET e3 == IF isOkta
                       THEN [e2 EXCEPT !.oktaProgress = newProgress, !.oktaPity = 0]
                       ELSE [e2 EXCEPT !.heptaProgress = newProgress, !.heptaPity = 0]
                 e4 == IF ~pathComplete THEN e3
                       ELSE IF isOkta
                       THEN [e3 EXCEPT !.level = targetLvl,
                                       !.anvilEnergy = Put(@, targetLvl, 0),
                                       !.oktaProgress = 0, !.oktaPity = 0]
                       ELSE [e3 EXCEPT !.level = targetLvl,
                                       !.anvilEnergy = Put(@, targetLvl, 0),
                                       !.heptaProgress = 0, !.heptaPity = 0]
             IN  [eng |-> e4,
                  res |-> [call |-> "ok", success |-> TRUE,
                           anvilTriggered |-> anvilTriggered,
                           startingLevel |-> IF pathComplete
                                             THEN (IF isOkta THEN 8 ELSE 7)
                                             ELSE e4.level,
                           endingLevel |-> e4.level, valksUsed |-> "null",
                           restorationAttempted |-> FALSE,
                           restorationSuccess |-> FALSE, isHeptaOkta |-> TRUE,
                           subProgress |-> IF pathComplete THEN 0 ELSE newProgress,
                           subPity |-> 0, pathComplete |-> pathComplete,
                           pathName |-> pathName]]
        ELSE LET e3 == IF isOkta
                       THEN [e2 EXCEPT !.oktaPity = @ + 1]
                       ELSE [e2 EXCEPT !.heptaPity = @ + 1]
             IN  [eng |-> e3,
                  res |-> [call |-> "ok", success |-> FALSE,
                           anvilTriggered |-> FALSE,
                           startingLevel |-> e3.level, endingLevel |-> e3.level,
                           valksUsed |-> "null", restorationAttempted |-> FALSE,
                           restorationSuccess |-> FALSE, isHeptaOkta |-> TRUE,
                           subProgress |-> currentProgress,
                           subPity |-> IF isOkta THEN e3.oktaPity ELSE e3.heptaPity,
                           pathComplete |-> FALSE, pathName |-> pathName]]

\* The valks selection without the `From > 0` tests.
selectValksNoZeroCheck(c, nextLevel) ==
    IF nextLevel >= c.valks100From THEN "100"
    ELSE IF nextLevel >= c.valks50From THEN "50"
    ELSE IF nextLevel >= c.valks10From THEN "10"
    ELSE "null"

\* Valks type of a normal attempt at nextLevel: priority 100 > 50 > 10.
selectValks(c, nextLevel) ==
    IF c.valks100From > 0 /\ nextLevel >= c.valks100From THEN "100"
    ELSE IF c.valks50From > 0 /\ nextLevel >= c.valks50From THEN "50"
    ELSE IF c.valks10From > 0 /\ nextLevel >= c.valks10From THEN "10"
    ELSE "null"

\* The roll made against the unbuffed rate whatever valks is applied.
baseRateUnbuffed(c, valksType, nextLevel) == Get(rateCache(c), nextLevel, 100)

\* rateCache*[nextLevel] ?? 0.01 of the chosen valks type.
baseRateOf(c, valksType, nextLevel) ==
    IF valksType = "100" THEN Get(rateCacheValks100(c), nextLevel, 100)
    ELSE IF valksType = "50" THEN Get(rateCacheValks50(c), nextLevel, 100)
    ELSE IF valksType = "10" THEN Get(rateCacheValks10(c), nextLevel, 100)
    ELSE Get(rateCache(c), nextLevel, 100)

\* anvilCheck with `>` for `>=`.
anvilCheckStrict(c, anvilEnergy, nextLevel) ==
    LET currentEnergy == Get(anvilEnergy, nextLevel, 0)
        maxEnergy == Get(GS(c).anvilThresholds, nextLevel, 999)
    IN  currentEnergy > maxEnergy /\ maxEnergy > 0

\* A pity that never triggers.
anvilCheckNever(c, anvilEnergy, nextLevel) == FALSE

\* anvilTriggered of a normal attempt at nextLevel.
anvilCheck(c, anvilEnergy, nextLevel) ==
    LET currentEnergy == Get(anvilEnergy, nextLevel, 0)
        maxEnergy == Get(GS(c).anvilThresholds, nextLevel, 999)
    IN  currentEnergy >= maxEnergy /\ maxEnergy > 0

\* A failure that does not add energy.
failedEnergyKept(currentEnergy) == currentEnergy

\* `this.anvilEnergy[nextLevel] = currentEnergy + 1`
failedEnergy(currentEnergy) == currentEnergy + 1

\* The restoration condition without the `restorationFrom > 0` test.
restorationActiveNoZeroTest(c, level) == level > 0 /\ level >= c.restorationFrom

\* `this.level > 0 && this.restorationFrom > 0 && this.level >= this.restorationFrom`
restorationActive(c, level) ==
    level > 0 /\ c.restorationFrom > 0 /\ level >= c.restorationFrom

\* The downgrade without the `level > 0` guard.
mayDowngradeAlways(level) == TRUE

\* `else if (this.level > 0)`: a failure without restoration downgrades.
mayDowngrade(level) == level > 0

\* The restoration roll with `<=` for `<`.
restorationSucceedsInclusive(d) == d <= RESTORATION_SUCCESS_RATE

\* `this.rng() < RESTORATION_SUCCESS_RATE`: the restoration holds the tier.
restorationSucceeds(d) == d < RESTORATION_SUCCESS_RATE

\* performEnhancementStep(); d1 is the value of the success roll and d2 of the
\* restoration roll, for the calls of rng() that are made.
performEnhancementStep(c, e, d1, d2) ==
    LET startingLevel == e.level
        nextLevel == e.level + 1
        valksType == selectValks(c, nextLevel)
        baseRate == baseRateOf(c, valksType, nextLevel)
        currentEnergy == Get(e.anvilEnergy, nextLevel, 0)
        anvilTriggered == anvilCheck(c, e.anvilEnergy, nextLevel)
        e1 == [e EXCEPT !.attempts = @ + 1,
                        !.crystals = @ + 1,
                        !.silver = @ + c.prices.crystalPrice + enhancementCost(c)
                                     + (IF valksType = "10" THEN c.prices.valks10Price
                                        ELSE IF valksType = "50" THEN c.prices.valks50Price
                                        ELSE IF valksType = "100" THEN c.prices.valks100Price
                                        ELSE 0),
                        !.valks10Used = @ + (IF valksType = "10" THEN 1 ELSE 0),
                        !.valks50Used = @ + (IF valksType = "50" THEN 1 ELSE 0),
                        !.valks100Used = @ + (IF valksType = "100" THEN 1 ELSE 0)]
        base == [NoStep EXCEPT !.call = "ok", !.startingLevel = startingLevel,
                               !.valksUsed = valksType]
    IN  IF anvilTriggered \/ d1 < baseRate
        THEN [eng |-> [e1 EXCEPT !.level = nextLevel,
                                 !.anvilEnergy = Put(@, nextLevel, 0),
                                 !.rng = rngAdvance(@, IF anvilTriggered THEN 0 ELSE 1)],
              res |-> [base EXCEPT !.success = TRUE,
                                   !.anvilTriggered = anvilTriggered,
                                   !.endingLevel = nextLevel]]
        ELSE LET e2 == [e1 EXCEPT !.anvilEnergy =
                                      Put(@, nextLevel, failedEnergy(currentEnergy))]
             IN  IF restorationActive(c, e2.level)
                 THEN LET e3 == [e2 EXCEPT !.scrolls = @ + RESTORATION_PER_ATTEMPT,
                                           !.silver = @ + restorationAttemptCost(c),
                                           !.rng = rngAdvance(@, 2)]
                      IN  IF restorationSucceeds(d2)
                          THEN [eng |-> e3,
                                res |-> [base EXCEPT !.restorationAttempted = TRUE,
                                                     !.restorationSuccess = TRUE,
                                                     !.endingLevel = e3.level]]
                          ELSE [eng |-> [e3 EXCEPT !.level = @ - 1],
                                res |-> [base EXCEPT !.restorationAttempted = TRUE,
                                                     !.endingLevel = e3.level - 1]]
                 ELSE IF mayDowngrade(e2.level)
                 THEN [eng |-> [e2 EXCEPT !.level = @ - 1, !.rng = rngAdvance(@, 1)],
                       res |-> [base EXCEPT !.endingLevel = e2.level - 1]]
                 ELSE [eng |-> [e2 EXCEPT !.rng = rngAdvance(@, 1)],
                       res |-> [base EXCEPT !.endingLevel = e2.level]]

\* step() spending restoration scrolls on a successful normal attempt too.
stepScrollsOnSuccess(c, e, d1, d2) ==
    LET out == IF isComplete(c, e) THEN [eng |-> e, res |-> Threw]
               ELSE IF shouldUseHepta(c, e) THEN performHeptaOktaStep(c, e, FALSE, d1)
               ELSE IF shouldUseOkta(c, e) THEN performHeptaOktaStep(c, e, TRUE, d1)
               ELSE performEnhancementStep(c, e, d1, d2)
    IN  IF out.res.call = "ok" /\ ~out.res.isHeptaOkta /\ out.res.success
           /\ restorationActive(c, e.level)
        THEN [out EXCEPT !.eng.scrolls = @ + RESTORATION_PER_ATTEMPT]
        ELSE out

\* step(): throws when complete, else exactly one of Hepta / Okta / normal.
step(c, e, d1, d2) ==
    IF isComplete(c, e) THEN [eng |-> e, res |-> Threw]
    ELSE IF shouldUseHepta(c, e) THEN performHeptaOktaStep(c, e, FALSE, d1)
    ELSE IF shouldUseOkta(c, e) THEN performHeptaOktaStep(c, e, TRUE, d1)
    ELSE performEnhancementStep(c, e, d1, d2)

\* ------------------------------------------------------ configurations
Prices ==
    {[crystalPrice |-> 3, restorationBundlePrice |-> 7000, valks10Price |-> 5,
      valks50Price |-> 11, valks100Price |-> 13]}

\* valks10From, valks50From, valks100From
ValksChoices == {<<0, 0, 0>>, <<1, 3, 5>>, <<1, 0, 0>>, <<2, 2, 0>>, <<1, 1, 1>>}

MkConfig(start, target, rest, useH, useO, startH, startO, v, p, g) ==
    [startLevel |-> start, targetLevel |-> target, restorationFrom |-> rest,
     useHepta |-> useH, useOkta |-> useO, startHepta |-> startH,
     startOkta |-> startO, valks10From |-> v[1], valks50From |-> v[2],
     valks100From |-> v[3], prices |-> p, gameSettings |-> g]

LowConfigs ==
    {MkConfig(lv[1], lv[2], rest, FALSE, FALSE, 0, 0, v, p, {}) :
        lv \in {<<0, 2>>, <<0, 3>>, <<2, 4>>, <<3, 3>>},
        rest \in {0, 2, 3}, v \in ValksChoices, p \in Prices}

HighConfigs ==
    {MkConfig(lv[1], lv[2], rest, useH, useO,
              IF lv[1] = 7 THEN startH ELSE 0, IF lv[1] = 8 THEN startO ELSE 0,
              v, p, {}) :
        lv \in {<<6, 8>>, <<7, 8>>, <<7, 9>>, <<8, 9>>, <<9, 10>>},
        rest \in {0, 7}, useH \in BOOLEAN, useO \in BOOLEAN,
        startH \in {0, 3}, startO \in {0, 8},
        v \in {<<0, 0, 0>>, <<1, 3, 5>>}, p \in Prices}

Configs == LowConfigs \cup HighConfigs

\* ------------------------------------------------------------- runners
\* limits of runFastWithLimits: each cap is optional.
MkLimits(c, s, v10, v50, v100) ==
    [crystals |-> c, scrolls |-> s, valks10 |-> v10, valks50 |-> v50, valks100 |-> v100]

Unlimited == MkLimits({}, {}, {}, {}, {})

LimitSets ==
    {Unlimited,
     MkLimits({CrystalCap}, {}, {}, {}, {}),
     MkLimits({0}, {}, {}, {}, {}),
     MkLimits({}, {ScrollCap}, {}, {}, {}),
     MkLimits({}, {}, {ValksCap}, {ValksCap}, {ValksCap}),
     MkLimits({}, {0}, {}, {}, {0}),
     MkLimits({CrystalCap + 2}, {ScrollCap}, {ValksCap}, {0}, {ValksCap})}

\* The local scalars of runFast / runFastWithLimits.
ZeroLoc ==
    [level |-> 0, crystals |-> 0, scrolls |-> 0, silver |-> 0,
     exquisiteCrystals |-> 0, valks10Used |-> 0, valks50Used |-> 0,
     valks100Used |-> 0, heptaProgress |-> 0, oktaProgress |-> 0,
     heptaPity |-> 0, oktaPity |-> 0]

\* The locals as runFast / runFastWithLimits initialise them from the engine.
fastLocals(e) ==
    [ZeroLoc EXCEPT !.level = e.level,
                    !.heptaProgress = e.heptaProgress,
                    !.oktaProgress = e.oktaProgress]

\* A runner call on an engine: which runner, where it is (idle: not called,
\* loop: in its while loop, done: returned), its limits argument, its locals,
\* the iterations made, the value returned, and the values the caller got
\* from earlier calls on this engine.
IdleRun ==
    [kind |-> "none", pc |-> "idle", limits |-> Unlimited, loc |-> ZeroLoc,
     iters |-> 0, result |-> <<>>, previous |-> <<>>]

\* The SimulationResult runFullSimulation() returns (recordSteps = false).
fullResult(e) ==
    [crystals |-> e.crystals, scrolls |-> e.scrolls, silver |-> e.silver,
     exquisiteCrystals |-> e.exquisiteCrystals, attempts |-> e.attempts,
     finalLevel |-> e.level, anvilEnergy |-> e.anvilEnergy,
     valks10Used |-> e.valks10Used, valks50Used |-> e.valks50Used,
     valks100Used |-> e.valks100Used]

\* The tuple runFast() returns.
fastResult(loc) ==
    <<loc.crystals, loc.scrolls, loc.silver, loc.exquisiteCrystals,
      loc.valks10Used, loc.valks50Used, loc.valks100Used>>

\* The tuple runFastWithLimits() returns, success last.
limitsResult(loc, success) == Append(fastResult(loc), success)

\* The Hepta / Okta branch of the fast loops (the same text in both runners).
fastHeptaCond(c, loc) ==
    /\ (c.useHepta \/ loc.heptaProgress > 0)
    /\ loc.level = 7
    /\ loc.heptaProgress < GS(c).heptaSubEnhancements

fastOktaCond(c, loc) ==
    /\ (c.useOkta \/ loc.oktaProgress > 0)
    /\ loc.level = 8
    /\ loc.oktaProgress < GS(c).oktaSubEnhancements

fastSubAttempt(c, e, loc, isOkta, d) ==
    LET g == GS(c)
        pity == IF isOkta THEN loc.oktaPity ELSE loc.heptaPity
        progress == IF isOkta THEN loc.oktaProgress ELSE loc.heptaProgress
        subs == IF isOkta THEN g.oktaSubEnhancements ELSE g.heptaSubEnhancements
        lvl == IF isOkta THEN 9 ELSE 8
        l1 == [loc EXCEPT !.exquisiteCrystals = @ + g.heptaOktaCrystalsPerAttempt,
                          !.silver = @ + exquisiteCost(c) * g.heptaOktaCrystalsPerAttempt]
        pitied == pity >= g.heptaOktaAnvilPity
        e1 == [e EXCEPT !.rng = rngAdvance(@, IF pitied THEN 0 ELSE 1)]
    IN  IF pitied \/ d < g.heptaOktaSuccessRate
        THEN IF progress + 1 >= subs
             THEN [eng |-> [e1 EXCEPT !.anvilEnergy = Put(@, lvl, 0)],
                   loc |-> IF isOkta
                           THEN [l1 EXCEPT !.oktaProgress = 0, !.oktaPity = 0,
                                           !.level = lvl]
                           ELSE [l1 EXCEPT !.heptaProgress = 0, !.heptaPity = 0,
                                           !.level = lvl]]
             ELSE [eng |-> e1,
                   loc |-> IF isOkta
                           THEN [l1 EXCEPT !.oktaProgress = @ + 1, !.oktaPity = 0]
                           ELSE [l1 EXCEPT !.heptaProgress = @ + 1, !.heptaPity = 0]]
        ELSE [eng |-> e1,
              loc |-> IF isOkta THEN [l1 EXCEPT !.oktaPity = @ + 1]
                      ELSE [l1 EXCEPT !.heptaPity = @ + 1]]

\* The locals after the valks and crystal spend of a normal fast attempt.
fastSpend(c, loc, valksType) ==
    [loc EXCEPT !.silver = @ + (IF valksType = "100" THEN c.prices.valks100Price
                                ELSE IF valksType = "50" THEN c.prices.valks50Price
                                ELSE IF valksType = "10" THEN c.prices.valks10Price
                                ELSE 0)
                             + c.prices.crystalPrice + enhancementCost(c),
                !.valks100Used = @ + (IF valksType = "100" THEN 1 ELSE 0),
                !.valks50Used = @ + (IF valksType = "50" THEN 1 ELSE 0),
                !.valks10Used = @ + (IF valksType = "10" THEN 1 ELSE 0),
                !.crystals = @ + 1]

\* The restoration roll of runFast read the other way round.
fastRestorationFlipped(d) == d < RESTORATION_SUCCESS_RATE

\* runFast's restoration roll: `rng() >= RESTORATION_SUCCESS_RATE` downgrades.
fastRestorationFails(d) == d >= RESTORATION_SUCCESS_RATE

\* One iteration of runFast's while loop (level < targetLevel holds).
runFastBody(c, e, loc, d1, d2) ==
    IF fastHeptaCond(c, loc) THEN fastSubAttempt(c, e, loc, FALSE, d1)
    ELSE IF fastOktaCond(c, loc) THEN fastSubAttempt(c, e, loc, TRUE, d1)
    ELSE
    LET nextLevel == loc.level + 1
        valksType == selectValks(c, nextLevel)
        baseRate == baseRateOf(c, valksType, nextLevel)
        l1 == fastSpend(c, loc, valksType)
        currentEnergy == Get(e.anvilEnergy, nextLevel, 0)
        anvilTriggered == anvilCheck(c, e.anvilEnergy, nextLevel)
    IN  IF anvilTriggered \/ d1 < baseRate
        THEN [eng |-> [e EXCEPT !.anvilEnergy = Put(@, nextLevel, 0),
                                !.rng = rngAdvance(@, IF anvilTriggered THEN 0 ELSE 1)],
              loc |-> [l1 EXCEPT !.level = nextLevel]]
        ELSE LET e1 == [e EXCEPT !.anvilEnergy = Put(@, nextLevel, currentEnergy + 1)]
             IN  IF l1.level > 0 /\ c.restorationFrom > 0 /\ l1.level >= c.restorationFrom
                 THEN [eng |-> [e1 EXCEPT !.rng = rngAdvance(@, 2)],
                       loc |-> [l1 EXCEPT !.scrolls = @ + RESTORATION_PER_ATTEMPT,
                                          !.silver = @ + restorationAttemptCost(c),
                                          !.level = IF fastRestorationFails(d2)
                                                    THEN @ - 1 ELSE @]]
                 ELSE [eng |-> [e1 EXCEPT !.rng = rngAdvance(@, 1)],
                       loc |-> IF l1.level > 0 THEN [l1 EXCEPT !.level = @ - 1] ELSE l1]

\* The crystal check with an undefined cap read as 0.
crystalLimitHitNoUndefined(maxCrystals, crystals) ==
    crystals >= (IF Defined(maxCrystals) THEN Val(maxCrystals) ELSE 0)

\* The crystal check with `>` for `>=`.
crystalLimitHitStrict(maxCrystals, crystals) ==
    Defined(maxCrystals) /\ crystals > Val(maxCrystals)

\* `maxCrystals !== undefined && crystals >= maxCrystals`
crystalLimitHit(maxCrystals, crystals) ==
    Defined(maxCrystals) /\ crystals >= Val(maxCrystals)

\* `canUseValksX && maxValksX !== undefined && valksXUsed >= maxValksX`
valksLimitHit(maxValks, used) == Defined(maxValks) /\ used >= Val(maxValks)

\* The scroll check without the pending spend.
scrollLimitHitNoPending(maxScrolls, scrolls) ==
    Defined(maxScrolls) /\ scrolls > Val(maxScrolls)

\* `maxScrolls !== undefined && scrolls + RESTORATION_PER_ATTEMPT > maxScrolls`
scrollLimitHit(maxScrolls, scrolls) ==
    Defined(maxScrolls) /\ scrolls + RESTORATION_PER_ATTEMPT > Val(maxScrolls)

\* The selection of runFastWithLimits without the checks of the valks caps.
selectValksLimitsUncapped(c, lim, loc, nextLevel) == selectValks(c, nextLevel)

\* Valks type of a normal attempt of runFastWithLimits: the highest eligible
\* type whose cap is not used up.
selectValksLimits(c, lim, loc, nextLevel) ==
    LET canUseValks100 == /\ c.valks100From > 0 /\ nextLevel >= c.valks100From
                          /\ ~valksLimitHit(lim.valks100, loc.valks100Used)
        canUseValks50 == /\ c.valks50From > 0 /\ nextLevel >= c.valks50From
                         /\ ~valksLimitHit(lim.valks50, loc.valks50Used)
        canUseValks10 == /\ c.valks10From > 0 /\ nextLevel >= c.valks10From
                         /\ ~valksLimitHit(lim.valks10, loc.valks10Used)
    IN  IF canUseValks100 THEN "100"
        ELSE IF canUseValks50 THEN "50"
        ELSE IF canUseValks10 THEN "10"
        ELSE "null"

\* One iteration of runFastWithLimits' while loop; ret is "fail" when the
\* iteration returns [..., 0] and "continue" otherwise.
runFastWithLimitsBody(c, e, lim, loc, d1, d2) ==
    IF fastHeptaCond(c, loc)
    THEN [ret |-> "continue"] @@ fastSubAttempt(c, e, loc, FALSE, d1)
    ELSE IF fastOktaCond(c, loc)
    THEN [ret |-> "continue"] @@ fastSubAttempt(c, e, loc, TRUE, d1)
    ELSE IF crystalLimitHit(lim.crystals, loc.crystals)
    THEN [ret |-> "fail", eng |-> e, loc |-> loc]
    ELSE
    LET nextLevel == loc.level + 1
        valksType == selectValksLimits(c, lim, loc, nextLevel)
        baseRate == baseRateOf(c, valksType, nextLevel)
        l1 == fastSpend(c, loc, valksType)
        currentEnergy == Get(e.anvilEnergy, nextLevel, 0)
        anvilTriggered == anvilCheck(c, e.anvilEnergy, nextLevel)
    IN  IF anvilTriggered \/ d1 < baseRate
        THEN [ret |-> "continue",
              eng |-> [e EXCEPT !.anvilEnergy = Put(@, nextLevel, 0),
                                !.rng = rngAdvance(@, IF anvilTriggered THEN 0 ELSE 1)],
              loc |-> [l1 EXCEPT !.level = nextLevel]]
        ELSE LET e1 == [e EXCEPT !.anvilEnergy = Put(@, nextLevel, currentEnergy + 1)]
             IN  IF l1.level > 0 /\ c.restorationFrom > 0 /\ l1.level >= c.restorationFrom
                 THEN IF scrollLimitHit(lim.scrolls, l1.scrolls)
                      THEN [ret |-> "continue",
                            eng |-> [e1 EXCEPT !.rng = rngAdvance(@, 1)],
                            loc |-> [l1 EXCEPT !.level = @ - 1]]
                      ELSE [ret |-> "continue",
                            eng |-> [e1 EXCEPT !.rng = rngAdvance(@, 2)],
                            loc |-> [l1 EXCEPT
                                        !.scrolls = @ + RESTORATION_PER_ATTEMPT,
                                        !.silver = @ + restorationAttemptCost(c),
                                        !.level = IF d2 >= RESTORATION_SUCCESS_RATE
                                                  THEN @ - 1 ELSE @]]
                 ELSE [ret |-> "continue",
                       eng |-> [e1 EXCEPT !.rng = rngAdvance(@, 1)],
                       loc |-> IF l1.level > 0 THEN [l1 EXCEPT !.level = @ - 1] ELSE l1]

\* ------------------------------------------------------ double arithmetic
\* The aggregator computes bucket widths and budget levels in IEEE-754
\* doubles.  A double is modelled exactly, as [m, e] standing for m * 2^e,
\* where m is a natural number of at most SIGNIFICAND_BITS bits written in
\* limbs of LIMB_BITS bits, lowest limb first (<<>> is 0).  Every operation
\* computes the exact result and rounds it to nearest, ties to even.
SIGNIFICAND_BITS == 53

LIMB_BITS == 15

RECURSIVE Pow2(_)
Pow2(k) == IF k = 0 THEN 1 ELSE 2 * Pow2(k - 1)

LIMB == Pow2(LIMB_BITS)

RECURSIVE LimbsOf(_)
LimbsOf(n) == IF n = 0 THEN <<>> ELSE <<n % LIMB>> \o LimbsOf(n \div LIMB)

RECURSIVE NatOf(_)
NatOf(a) == IF a = <<>> THEN 0 ELSE a[1] + LIMB * NatOf(Tail(a))

RECURSIVE Strip(_)
Strip(a) ==
    IF a = <<>> \/ a[Len(a)] # 0 THEN a ELSE Strip(SubSeq(a, 1, Len(a) - 1))

RECURSIVE LAddCarry(_, _, _)
LAddCarry(a, b, carry) ==
    IF a = <<>> /\ b = <<>> THEN LimbsOf(carry)
    ELSE LET s == (IF a = <<>> THEN 0 ELSE a[1])
                  + (IF b = <<>> THEN 0 ELSE b[1]) + carry
         IN  <<s % LIMB>> \o LAddCarry(IF a = <<>> THEN a ELSE Tail(a),
                                       IF b = <<>> THEN b ELSE Tail(b),
                                       s \div LIMB)

LAdd(a, b) == LAddCarry(a, b, 0)

RECURSIVE LMulCarry(_, _, _)
LMulCarry(a, k, carry) ==
    IF a = <<>> THEN LimbsOf(carry)
    ELSE LET s == a[1] * k + carry
         IN  <<s % LIMB>> \o LMulCarry(Tail(a), k, s \div LIMB)

\* a * k for 0 <= k <= LIMB
LMul(a, k) == IF k = 0 THEN <<>> ELSE LMulCarry(a, k, 0)

RECURSIVE BitsIn(_)
BitsIn(n) == IF n = 0 THEN 0 ELSE 1 + BitsIn(n \div 2)

BitLen(a) ==
    IF a = <<>> THEN 0 ELSE LIMB_BITS * (Len(a) - 1) + BitsIn(a[Len(a)])

\* a * 2^s
ShiftLeft(a, s) ==
    IF a = <<>> THEN a
    ELSE [j \in 1 .. s \div LIMB_BITS |-> 0] \o LMul(a, Pow2(s % LIMB_BITS))

\* floor(a / 2^s)
ShiftRight(a, s) ==
    LET drop == s \div LIMB_BITS
        t == s % LIMB_BITS
        b == IF drop >= Len(a) THEN <<>> ELSE SubSeq(a, drop + 1, Len(a))
        n == Len(b)
    IN  Strip([j \in 1 .. n |->
                  b[j] \div Pow2(t)
                  + (IF j < n THEN (b[j + 1] % Pow2(t)) * Pow2(LIMB_BITS - t)
                     ELSE 0)])

\* bit j of a, bit 0 the lowest
Bit(a, j) ==
    IF j \div LIMB_BITS >= Len(a) THEN 0
    ELSE (a[j \div LIMB_BITS + 1] \div Pow2(j % LIMB_BITS)) % 2

\* some bit of a below bit j is 1
AnyBitBelow(a, j) ==
    \/ \E i \in 1 .. Min(j \div LIMB_BITS, Len(a)) : a[i] # 0
    \/ /\ j \div LIMB_BITS < Len(a)
       /\ a[j \div LIMB_BITS + 1] % Pow2(j % LIMB_BITS) # 0

\* -1, 0 or 1 as a < b, a = b or a > b
RECURSIVE LCmpFrom(_, _, _)
LCmpFrom(a, b, j) ==
    IF j = 0 THEN 0
    ELSE IF a[j] < b[j] THEN -1
    ELSE IF a[j] > b[j] THEN 1
    ELSE LCmpFrom(a, b, j - 1)

LCmp(a, b) ==
    IF Len(a) < Len(b) THEN -1
    ELSE IF Len(a) > Len(b) THEN 1
    ELSE LCmpFrom(a, b, Len(a))

\* The double nearest to a * 2^e (ties to even).
RoundDouble(a, e) ==
    LET cut == BitLen(a) - SIGNIFICAND_BITS
    IN  IF cut <= 0 THEN [m |-> a, e |-> e]
        ELSE LET kept == ShiftRight(a, cut)
                 up == /\ Bit(a, cut - 1) = 1
                       /\ AnyBitBelow(a, cut - 1) \/ Bit(kept, 0) = 1
                 r == IF up THEN LAdd(kept, <<1>>) ELSE kept
             IN  IF BitLen(r) > SIGNIFICAND_BITS
                 THEN [m |-> ShiftRight(r, 1), e |-> e + cut + 1]
                 ELSE [m |-> r, e |-> e + cut]

\* The limbs of floor(rem * LIMB^k / d), highest limb first, and the last
\* remainder, by long division (rem < d <= LIMB).
RECURSIVE FractionLimbs(_, _, _, _)
FractionLimbs(rem, d, k, acc) ==
    IF k = 0 THEN [limbs |-> acc, rem |-> rem]
    ELSE FractionLimbs((rem * LIMB) % d, d, k - 1,
                       <<(rem * LIMB) \div d>> \o acc)

\* n / d in doubles, for integers n >= 0 and 1 <= d <= LIMB: the quotient
\* to 5 limbs past the point, the bits beyond folded into a sticky last bit.
FDivInt(n, d) ==
    LET f == FractionLimbs(n % d, d, 5, <<>>)
        q == Strip(f.limbs \o LimbsOf(n \div d))
        sticky == IF f.rem = 0 THEN <<>> ELSE <<1>>
    IN  RoundDouble(LAdd(LMul(q, 2), sticky), -(5 * LIMB_BITS) - 1)

\* f * k in doubles, for an integer 0 <= k <= LIMB
FMulInt(f, k) == RoundDouble(LMul(f.m, k), f.e)

\* n + f in doubles, for an integer n >= 0 and f.e <= 0
FAddInt(n, f) ==
    RoundDouble(LAdd(ShiftLeft(LimbsOf(n), -f.e), f.m), f.e)

\* Math.floor(f)
FFloor(f) ==
    IF f.e >= 0 THEN NatOf(ShiftLeft(f.m, f.e))
    ELSE NatOf(ShiftRight(f.m, -f.e))

\* Math.floor(a / w) in doubles, for an integer a >= 0 and a double w > 0
\* with a / w < kmax + 1.  With k the floor of the exact quotient, the double
\* quotient is k + 1 when the exact one is within half a unit in the last
\* place below k + 1 (k + 1 has an even significand, so a tie rounds up to
\* it), and has floor k otherwise.
FFloorDivInt(a, w, kmax) ==
    LET A == IF w.e <= 0 THEN ShiftLeft(LimbsOf(a), -w.e) ELSE LimbsOf(a)
        M == IF w.e <= 0 THEN w.m ELSE ShiftLeft(w.m, w.e)
        k == CHOOSE j \in 0 .. kmax :
                 /\ LCmp(LMul(M, j), A) <= 0
                 /\ LCmp(LMul(M, j + 1), A) > 0
        t == k + 1
        \* the doubles just below t are 2^-h apart
        h == SIGNIFICAND_BITS - BitsIn(t - 1)
    IN  IF LCmp(LAdd(ShiftLeft(A, h + 1), M), ShiftLeft(LMul(M, t), h + 1)) >= 0
        THEN t ELSE k

\* --------------------------------------------------------- aggregation
\* No strategy or Monte Carlo result computed yet.
NoReport == [kind |-> "none"]

\* The batch `sims` holds one tuple per simulation, as runFastWithLimits
\* returns it: crystals, scrolls, silver, exquisite, valks10, valks50,
\* valks100, success.  Column(b, k) is the array of the k-th totals, in run
\* order (crystalResults, scrollResults, silverResults, ...).
Column(b, k) == [i \in 1 .. Len(b) |-> b[i][k]]

RECURSIVE SeqSum(_)
SeqSum(arr) == IF arr = <<>> THEN 0 ELSE arr[1] + SeqSum(Tail(arr))

\* `Array.from({length: n}, (_, i) => i).sort((a, b) => vals[a] - vals[b])`:
\* the indices (from 1 here) by ascending value; the sort is stable, so equal
\* values keep their run order.
sortIndicesBy(vals) ==
    LET N == Len(vals)
        before(j, i) == vals[j] < vals[i] \/ (vals[j] = vals[i] /\ j < i)
        rank(i) == Cardinality({j \in 1 .. N : before(j, i)})
    IN  [k \in 1 .. N |-> CHOOSE i \in 1 .. N : rank(i) = k - 1]

\* The array left in run order: the sort was not applied.
sortAscendingSkipped(arr) == arr

\* `arr.sort((a, b) => a - b)`
sortAscending(arr) ==
    LET idx == sortIndicesBy(arr) IN [k \in 1 .. Len(arr) |-> arr[idx[k]]]

\* `Math.min(Math.floor(n * p), n - 1)`, p given in percent, as a 0-based
\* index.  n * p is exact here: for p in {0.1, 0.25, 0.5, 0.75, 0.9, 0.95,
\* 0.99} the double product rounds to the integer whenever n * p is one.
percentileIdx(n, pct) == Min((n * pct) \div 100, n - 1)

\* percentile taken at floor((n - 1) * p).
percentileOfLast(sorted, pct) ==
    IF Len(sorted) = 0 THEN 0
    ELSE sorted[((Len(sorted) - 1) * pct) \div 100 + 1]

\* percentile(sorted, p): `sorted[Math.min(idx, sorted.length - 1)] ?? 0`
percentile(sorted, pct) ==
    IF Len(sorted) = 0 THEN 0
    ELSE sorted[percentileIdx(Len(sorted), pct) + 1]

\* average(arr) as the fraction num / den.
average(arr) ==
    IF Len(arr) > 0 THEN [num |-> SeqSum(arr), den |-> Len(arr)]
    ELSE [num |-> 0, den |-> 1]

calcPercentiles(sorted) ==
    [average |-> average(sorted),
     p50 |-> percentile(sorted, 50),
     p90 |-> percentile(sorted, 90),
     p99 |-> percentile(sorted, 99),
     worst |-> IF Len(sorted) = 0 THEN 0 ELSE sorted[Len(sorted)]]

\* runMonteCarlo's statistics over a batch: each quantity sorted on its own.
runMonteCarlo(b) ==
    [kind |-> "monteCarlo",
     silverCost |-> calcPercentiles(sortAscending(Column(b, 3))),
     pristineBlackCrystals |-> calcPercentiles(sortAscending(Column(b, 1))),
     restorationScrolls |-> calcPercentiles(sortAscending(Column(b, 2)))]

\* The market prices of the strategy analysis: the +10% / +50% / +100% items
\* are free, as the worker's comment on simConfig says.
StrategyPrices ==
    [crystalPrice |-> 3, restorationBundlePrice |-> 27000, valks10Price |-> 0,
     valks50Price |-> 0, valks100Price |-> 0]

\* simConfig of one restoration option (from +IV, below the target).
StrategyConfig ==
    MkConfig(3, 5, 4, FALSE, FALSE, 0, 0, <<0, 0, 3>>, StrategyPrices, {})

\* The totals of one simulation of the batch, as runFastWithLimits returns
\* them: c crystals (each attempt with a +100% item), r restorations, x
\* Hepta / Okta sub-attempts, silver at the price table, and success, which
\* is 0 only for a run stopped at the crystal cap.
SimTotal(c, r, x, success) ==
    <<c, r * RESTORATION_PER_ATTEMPT,
      c * StrategyConfig.prices.crystalPrice
        + r * restorationAttemptCost(StrategyConfig)
        + x * HEPTA_OKTA_CRYSTALS_PER_ATTEMPT * exquisiteCost(StrategyConfig),
      x * HEPTA_OKTA_CRYSTALS_PER_ATTEMPT, 0, 0, c, success>>

SimTotals ==
    {SimTotal(c, r, 0, 1) : c \in {2, 3, 11}, r \in 0 .. 1}
        \cup {SimTotal(11, r, 0, 0) : r \in 0 .. 1}
        \cup {SimTotal(2, 0, 1, 1), SimTotal(3, 1, 1, 1)}

SilverValues == {t[3] : t \in SimTotals}

\* JavaScript numbers that need not be integers are fractions num / den;
\* 0 / 0 is NaN and 1 / 0 is +Infinity.
NaN == [num |-> 0, den |-> 0]

PositiveInfinity == [num |-> 1, den |-> 0]

\* a / b for integers a >= 0, b >= 0
Ratio(a, b) ==
    IF b # 0 THEN [num |-> a, den |-> b]
    ELSE IF a = 0 THEN NaN ELSE PositiveInfinity

\* `x > 0` and `x < n` for a fraction x: false for NaN.
Positive(x) == x.num > 0

LessThan(x, n) == x.den > 0 /\ x.num < n * x.den

\* A read past the end of an array.
Undefined == "undefined"

DEFAULT_NUM_BUCKETS == 30

DEFAULT_NUM_POINTS == 50

\* `Math.floor((value - minVal) / bucketWidth)` with
\* `bucketWidth = range === 0 ? 1 : range / numBuckets`, in doubles.
floatBucketIdx(offset, range, numBuckets) ==
    IF range = 0 THEN offset
    ELSE FFloorDivInt(offset, FDivInt(range, numBuckets), numBuckets)

\* floatBucketIdx of every value of the batches under DEFAULT_NUM_BUCKETS,
\* computed once.
BucketIdxMemo ==
    {<<<<q[2] - q[1], q[3] - q[1]>>,
       floatBucketIdx(q[2] - q[1], q[3] - q[1], DEFAULT_NUM_BUCKETS)>> :
        q \in {t \in SilverValues \X SilverValues \X SilverValues :
                  t[1] <= t[2] /\ t[2] <= t[3] /\ t[1] < t[3]}}

\* The index is not clamped into the last bucket.
bucketIdxUnclamped(offset, range, numBuckets) ==
    floatBucketIdx(offset, range, numBuckets)

bucketIdxOf(offset, range, numBuckets) ==
    LET raw == IF numBuckets = DEFAULT_NUM_BUCKETS
                  /\ \E e \in BucketIdxMemo : e[1] = <<offset, range>>
               THEN (CHOOSE e \in BucketIdxMemo : e[1] = <<offset, range>>)[2]
               ELSE floatBucketIdx(offset, range, numBuckets)
    IN  \* Ensure the max value goes into the last bucket
        IF raw >= numBuckets THEN numBuckets - 1 ELSE raw

\* The "fill buckets" loop of generateDistribution, from position k of
\* sortedIndices on.
RECURSIVE fillBuckets(_, _, _, _, _)
fillBuckets(silverResults, sortedIndices, numBuckets, k, bucketCounts) ==
    IF k > Len(sortedIndices) THEN bucketCounts
    ELSE LET minVal == silverResults[sortedIndices[1]]
             maxVal == silverResults[sortedIndices[Len(sortedIndices)]]
             bucketIdx == bucketIdxOf(silverResults[sortedIndices[k]] - minVal,
                                      maxVal - minVal, numBuckets)
         IN  fillBuckets(silverResults, sortedIndices, numBuckets, k + 1,
                         [bucketCounts EXCEPT ![bucketIdx + 1] = @ + 1])

\* The bucket objects from bucket i on, with the running cumulative count
\* (the bucket bounds are left out).
RECURSIVE buildBuckets(_, _, _, _)
buildBuckets(bucketCounts, i, cumulative, count) ==
    IF i > Len(bucketCounts) THEN <<>>
    ELSE LET c == bucketCounts[i]
         IN  <<[count |-> c,
                cumulative |-> cumulative + c,
                percentage |-> Ratio(c * 100, count),
                cumulativePercentage |-> Ratio((cumulative + c) * 100, count)]>>
                 \o buildBuckets(bucketCounts, i + 1, cumulative + c, count)

\* generateDistribution: the histogram buckets, the percentiles, the stats
\* and the total count of the runs in sortedIndices.
generateDistribution(silverResults, sortedIndices, numBuckets) ==
    LET count == Len(sortedIndices)
        at(pct) == silverResults[sortedIndices[percentileIdx(count, pct) + 1]]
    IN  IF count = 0
        THEN [buckets |-> <<>>,
              percentiles |-> [p10 |-> 0, p25 |-> 0, p50 |-> 0, p75 |-> 0,
                               p90 |-> 0, p95 |-> 0],
              stats |-> [min |-> 0, max |-> 0, mean |-> Ratio(0, 1)],
              totalCount |-> 0]
        ELSE [buckets |->
                  buildBuckets(fillBuckets(silverResults, sortedIndices,
                                           numBuckets, 1,
                                           [i \in 1 .. numBuckets |-> 0]),
                               1, 0, count),
              percentiles |-> [p10 |-> at(10), p25 |-> at(25), p50 |-> at(50),
                               p75 |-> at(75), p90 |-> at(90), p95 |-> at(95)],
              stats |-> [min |-> silverResults[sortedIndices[1]],
                         max |-> silverResults[sortedIndices[count]],
                         mean |-> Ratio(SeqSum([k \in 1 .. count |->
                                            silverResults[sortedIndices[k]]]),
                                        count)],
              totalCount |-> count]

\* The budget levels `minSilver + step * i`, i = 0 .. numPoints - 1, with
\* `step = (maxSilver - minSilver) / (numPoints - 1)`, in doubles: each level
\* with its floor (a run total is an integer, so it is <= the level exactly
\* when it is <= the floor).
RECURSIVE levelsFrom(_, _, _, _)
levelsFrom(minSilver, levelStep, i, numPoints) ==
    IF i = numPoints THEN <<>>
    ELSE LET budgetLevel == FAddInt(minSilver, FMulInt(levelStep, i))
         IN  <<[value |-> budgetLevel, floor |-> FFloor(budgetLevel)]>>
                 \o levelsFrom(minSilver, levelStep, i + 1, numPoints)

floatBudgetLevels(minSilver, maxSilver, numPoints) ==
    levelsFrom(minSilver, FDivInt(maxSilver - minSilver, numPoints - 1), 0,
               numPoints)

\* floatBudgetLevels of every pair of totals of the batches under
\* DEFAULT_NUM_POINTS, computed once.
BudgetLevelsMemo ==
    {<<q, floatBudgetLevels(q[1], q[2], DEFAULT_NUM_POINTS)>> :
        q \in {t \in SilverValues \X SilverValues : t[1] < t[2]}}

budgetLevelsOf(minSilver, maxSilver, numPoints) ==
    IF numPoints = DEFAULT_NUM_POINTS
       /\ \E e \in BudgetLevelsMemo : e[1] = <<minSilver, maxSilver>>
    THEN (CHOOSE e \in BudgetLevelsMemo : e[1] = <<minSilver, maxSilver>>)[2]
    ELSE floatBudgetLevels(minSilver, maxSilver, numPoints)

\* The inner while loop of generateSurvivalCurve: advance through the sorted
\* indices until the budget level is passed.
RECURSIVE advanceSorted(_, _, _, _, _)
advanceSorted(silverResults, successResults, sortedIndices, level, st) ==
    IF st.sortedIdx < Len(sortedIndices)
       /\ silverResults[sortedIndices[st.sortedIdx + 1]] <= level.floor
    THEN advanceSorted(silverResults, successResults, sortedIndices, level,
                       [cumulativeSuccess |-> st.cumulativeSuccess
                            + successResults[sortedIndices[st.sortedIdx + 1]],
                        sortedIdx |-> st.sortedIdx + 1])
    ELSE st

\* The outer for loop of generateSurvivalCurve, from point i on.
RECURSIVE sweepFrom(_, _, _, _, _, _)
sweepFrom(silverResults, successResults, sortedIndices, levels, i, st) ==
    IF i > Len(levels) THEN <<>>
    ELSE LET st1 == advanceSorted(silverResults, successResults, sortedIndices,
                                  levels[i], st)
         IN  <<[silver |-> levels[i].value,
                successProbability |->
                    Ratio(st1.cumulativeSuccess * 100, Len(sortedIndices))]>>
                 \o sweepFrom(silverResults, successResults, sortedIndices,
                              levels, i + 1, st1)

generateSurvivalCurve(silverResults, successResults, sortedIndices, numPoints) ==
    LET numSims == Len(sortedIndices)
        minSilver == silverResults[sortedIndices[1]]
        maxSilver == silverResults[sortedIndices[numSims]]
    IN  IF numSims = 0 THEN <<>>
        ELSE IF minSilver = maxSilver
        THEN <<[silver |-> [m |-> LimbsOf(minSilver), e |-> 0],
                successProbability |->
                    Ratio(SeqSum([i \in 1 .. numSims |-> successResults[i]]) * 100,
                          numSims)]>>
        ELSE sweepFrom(silverResults, successResults, sortedIndices,
                       budgetLevelsOf(minSilver, maxSilver, numPoints), 1,
                       [cumulativeSuccess |-> 0, sortedIdx |-> 0])

\* The totals of the run at position k (0-based) of allIndices; a position
\* outside allIndices reads undefined from every array.
strategyRow(b, allIndices, k, withExquisite) ==
    LET present == k + 1 \in DOMAIN allIndices
        r == b[allIndices[k + 1]]
        f(col) == IF present THEN r[col] ELSE Undefined
        row == [crystals |-> f(1), scrolls |-> f(2), silver |-> f(3),
                valks10 |-> f(5), valks50 |-> f(6), valks100 |-> f(7)]
    IN  IF withExquisite THEN row @@ [exquisite |-> f(4)] ELSE row

\* The mean cost of the successful runs only.
meanCostOfSuccessful(b) ==
    LET n == Cardinality({i \in 1 .. Len(b) : b[i][8] = 1})
    IN  Ratio(SeqSum([i \in 1 .. Len(b) |-> IF b[i][8] = 1 THEN b[i][3] ELSE 0]), n)

\* `totalSilver / numSims`
meanCostAllRuns(b) == Ratio(SeqSum(Column(b, 3)), Len(b))

\* `(successCount / numSims) * 100`
successRateOf(b) == Ratio(SeqSum(Column(b, 8)) * 100, Len(b))

\* The indices of the failed runs, sorted by silver (stable).
failedIndicesOf(b) ==
    LET silverResults == Column(b, 3)
        failed == {i \in 1 .. Len(b) : b[i][8] # 1}
        before(j, i) == silverResults[j] < silverResults[i]
                        \/ (silverResults[j] = silverResults[i] /\ j < i)
        rank(i) == Cardinality({j \in failed : before(j, i)})
    IN  [k \in 1 .. Cardinality(failed) |-> CHOOSE i \in failed : rank(i) = k - 1]

\* The result pushed for one strategy option: success rate, p50 / p90 /
\* worst rows, distributions, risk-adjusted metrics and survival curve.
strategyResult(b, kind, withExquisite) ==
    LET numSims == Len(b)
        silverResults == Column(b, 3)
        successResults == Column(b, 8)
        successCount == SeqSum(successResults)
        successRate == successRateOf(b)
        mean == meanCostAllRuns(b)
        allIndices == sortIndicesBy(silverResults)
        failedIndices == failedIndicesOf(b)
        successSilver == SeqSum([i \in 1 .. numSims |->
                            IF successResults[i] = 1 THEN silverResults[i] ELSE 0])
        p50Idx == percentileIdx(numSims, 50)
        p90Idx == percentileIdx(numSims, 90)
        worstIdx == numSims - 1
    IN  [kind |-> kind,
         successRate |-> successRate,
         p50 |-> strategyRow(b, allIndices, p50Idx, withExquisite),
         p90 |-> strategyRow(b, allIndices, p90Idx, withExquisite),
         worst |-> strategyRow(b, allIndices, worstIdx, withExquisite),
         distribution |-> generateDistribution(silverResults, allIndices,
                                               DEFAULT_NUM_BUCKETS),
         failedDistribution |->
             IF Len(failedIndices) > 0
             THEN {generateDistribution(silverResults, failedIndices,
                                        DEFAULT_NUM_BUCKETS)}
             ELSE {},
         expectedCostPerSuccess |->
             IF Positive(successRate)
             THEN Ratio(mean.num * successRate.den * 100,
                        mean.den * successRate.num)
             ELSE PositiveInfinity,
         expectedAttempts |->
             IF Positive(successRate)
             THEN Ratio(100 * successRate.den, successRate.num)
             ELSE PositiveInfinity,
         meanCostAllRuns |-> mean,
         meanCostSuccessful |->
             IF successCount > 0 THEN Ratio(successSilver, successCount)
             ELSE Ratio(0, 1),
         survivalCurve |->
             IF LessThan(successRate, 100)
             THEN {generateSurvivalCurve(silverResults, successResults,
                                         allIndices, DEFAULT_NUM_POINTS)}
             ELSE {}]

runRestorationStrategy(b) == strategyResult(b, "restoration", FALSE)

runHeptaOktaStrategy(b) == strategyResult(b, "heptaOkta", TRUE)

\* ----------------------------------------------------------- run history
\* UI_CONSTANTS.MAX_SAVED_RUNS is 50 in the source; the capacity is scaled
\* down here, saveCurrentRun using it only in `newRuns.length > MAX_SAVED_RUNS`
\* and `MAX_SAVED_RUNS - pinned.length`.
MAX_SAVED_RUNS == 3

\* DEFAULT_CONFIG, without the price table (setConfig does not look at it).
DEFAULT_CONFIG ==
    [startLevel |-> 0, targetLevel |-> 9, restorationFrom |-> 6,
     useHepta |-> FALSE, useOkta |-> FALSE, startHepta |-> 0, startOkta |-> 0,
     valks10From |-> 1, valks50From |-> 3, valks100From |-> 5]

\* `Math.max(1, Math.min(10, x))` for a threshold that is not 0 (disabled).
clampValks(x) == IF x > 0 THEN Max(1, Min(10, x)) ELSE x

\* `if ('startLevel' in partial) { ... }`
resetProgress(partial, newConfig) ==
    IF "startLevel" \in DOMAIN partial
    THEN [newConfig EXCEPT
             !.startHepta = IF newConfig.startLevel # 7 THEN 0 ELSE @,
             !.startOkta = IF newConfig.startLevel # 8 THEN 0 ELSE @]
    ELSE newConfig

\* setConfig(partial): the configuration the store holds afterwards.
setConfig(config, partial) ==
    LET merged == [k \in DOMAIN config |->
                      IF k \in DOMAIN partial THEN partial[k] ELSE config[k]]
        c1 == [merged EXCEPT !.startLevel = Max(0, Min(10, @)),
                             !.targetLevel = Max(1, Min(10, @))]
        c2 == IF c1.startLevel >= c1.targetLevel
              THEN [c1 EXCEPT !.startLevel = Max(0, c1.targetLevel - 1)]
              ELSE c1
        c3 == IF c2.restorationFrom > 0
              THEN [c2 EXCEPT !.restorationFrom = Max(4, Min(c2.targetLevel, @))]
              ELSE c2
        c4 == [c3 EXCEPT !.valks10From = clampValks(@),
                         !.valks50From = clampValks(@),
                         !.valks100From = clampValks(@)]
        c5 == [c4 EXCEPT !.startHepta = Max(0, Min(4, @)),
                         !.startOkta = Max(0, Min(9, @))]
    IN  resetProgress(partial, c5)

\* The calls of setConfig the configuration page makes: one field per call,
\* the progress selects shown only at start tier 7 / 8.
PageCalls(config) ==
    {[targetLevel |-> v] : v \in {1, 7, 8, 9, 10}}
    \cup {[startLevel |-> v] : v \in {0, 6, 7, 8, 9}}
    \cup (IF config.startLevel = 7
          THEN {[startHepta |-> v] : v \in {0, 3, 4}} ELSE {})
    \cup (IF config.startLevel = 8
          THEN {[startOkta |-> v] : v \in {0, 8, 9}} ELSE {})
    \cup {[useHepta |-> b] : b \in BOOLEAN}
    \cup {[useOkta |-> b] : b \in BOOLEAN}
    \cup {[valks100From |-> v] : v \in {0, 5}}
    \cup {[restorationFrom |-> v] : v \in {0, 6, 8}}

\* The store before any run was saved: loadSavedRuns() of an empty storage.
\* now is the last value Date.now() returned, saves the number of runs saved.
NoStore ==
    [savedRuns |-> <<>>, now |-> 0, saves |-> 0, config |-> DEFAULT_CONFIG]

\* The fields of a SavedRun the history depends on.
SavedRun(id, timestamp) == [id |-> id, timestamp |-> timestamp, pinned |-> FALSE]

IsPinned(r) == r.pinned

IsUnpinned(r) == ~r.pinned

\* r put into a list sorted newest first, after the runs that are not older.
insertNewestFirst(r, sorted) ==
    LET before == {i \in 1 .. Len(sorted) : sorted[i].timestamp >= r.timestamp}
        k == Cardinality(before)
    IN  SubSeq(sorted, 1, k) \o <<r>> \o SubSeq(sorted, k + 1, Len(sorted))

RECURSIVE sortNewestFirstFrom(_, _, _)
sortNewestFirstFrom(runs, i, sorted) ==
    IF i > Len(runs) THEN sorted
    ELSE sortNewestFirstFrom(runs, i + 1, insertNewestFirst(runs[i], sorted))

\* `newRuns.sort((a, b) => b.timestamp - a.timestamp)`: a stable sort.
sortNewestFirst(runs) == sortNewestFirstFrom(runs, 1, <<>>)

\* `slice(0, n)`
Slice0(s, n) == SubSeq(s, 1, IF n < Len(s) THEN n ELSE Len(s))

\* The overflow handling cutting the list to its newest runs, pinned or not.
overflowIgnoringPins(newRuns) ==
    IF Len(newRuns) > MAX_SAVED_RUNS
    THEN sortNewestFirst(Slice0(newRuns, MAX_SAVED_RUNS))
    ELSE newRuns

\* `if (newRuns.length > MAX_SAVED_RUNS) { ... }`: keep all pinned runs and as
\* many unpinned runs as fit, then sort newest first.
overflow(newRuns) ==
    IF Len(newRuns) > MAX_SAVED_RUNS
    THEN LET pinned == SelectSeq(newRuns, IsPinned)
             unpinned == SelectSeq(newRuns, IsUnpinned)
             unpinnedToKeep == MAX_SAVED_RUNS - Len(pinned)
         IN  sortNewestFirst(
                 pinned \o Slice0(unpinned, IF unpinnedToKeep > 0
                                             THEN unpinnedToKeep ELSE 0))
    ELSE newRuns

\* saveCurrentRun() with a step history of historyLength steps, Date.now()
\* returning timestamp and crypto.randomUUID() the id-th fresh id.
saveCurrentRun(savedRuns, historyLength, id, timestamp) ==
    IF historyLength = 0 THEN savedRuns
    ELSE overflow(<<SavedRun(id, timestamp)>> \o savedRuns)

\* deleteRun(id)
deleteRun(savedRuns, id) ==
    LET Other(r) == r.id # id IN SelectSeq(savedRuns, Other)

\* togglePinRun(id)
togglePinRun(savedRuns, id) ==
    [i \in 1 .. Len(savedRuns) |->
        IF savedRuns[i].id = id
        THEN [savedRuns[i] EXCEPT !.pinned = ~@]
        ELSE savedRuns[i]]

\* ----------------------------------------------------------- ring buffer
\* The items pushed.
Items == {"a", "b"}

\* No RingBuffer constructed.
NoRing == [capacity |-> 0, buffer |-> <<>>, head |-> 0, count |-> 0]

\* new RingBuffer(capacity): the slots of `new Array(capacity)` are empty.
RingBuffer(capacity) ==
    [capacity |-> capacity, buffer |-> [i \in 0 .. capacity - 1 |-> Undefined],
     head |-> 0, count |-> 0]

\* push(item)
push(r, item) ==
    [r EXCEPT !.buffer[r.head] = item,
              !.head = (@ + 1) % r.capacity,
              !.count = IF @ < r.capacity THEN @ + 1 ELSE @]

\* `this.buffer.slice(from, to)` as a sequence (0 <= from <= to <= capacity).
bufferSlice(r, from, to) == [i \in 1 .. to - from |-> r.buffer[from + i - 1]]

\* toArray()
toArray(r) ==
    IF r.count = 0 THEN <<>>
    ELSE IF r.count < r.capacity THEN bufferSlice(r, 0, r.count)
    ELSE bufferSlice(r, r.head, r.capacity) \o bufferSlice(r, 0, r.head)

\* get(index) reading the slot at the logical index itself.
getUnrotated(r, index) ==
    IF index < 0 \/ index >= r.count THEN Undefined
    ELSE r.buffer[index]

\* get(index)
get(r, index) ==
    IF index < 0 \/ index >= r.count THEN Undefined
    ELSE IF r.count < r.capacity THEN r.buffer[index]
    ELSE r.buffer[(r.head + index) % r.capacity]

\* clear()
clear(r) == [r EXCEPT !.head = 0, !.count = 0]

\* ------------------------------------------- step-by-step specification
Init ==
    /\ cfg \in Configs
    /\ seed \in {{s} : s \in Seeds}
    /\ eng = [i \in 1 .. 2 |-> Engine(cfg, seed)]
    /\ run = [i \in 1 .. 2 |-> IdleRun]
    /\ last = NoStep
    /\ sims = <<>>
    /\ report = NoReport
    /\ store = NoStore
    /\ ring = NoRing
    /\ pushed = <<>>

\* One call of engine.step() by the caller.
Step ==
    /\ eng[1].attempts < MaxAttempts
    /\ \E d1 \in rngDraws(eng[1].rng, 0), d2 \in rngDraws(eng[1].rng, 1) :
          LET out == step(cfg, eng[1], d1, d2)
          IN  /\ eng' = [eng EXCEPT ![1] = out.eng]
              /\ last' = out.res
    /\ UNCHANGED <<ring, pushed, store, sims, report, cfg, seed, run>>

\* The caller calls engine.reset(); the generator keeps its position.
Reset ==
    /\ eng' = [eng EXCEPT ![1] = reset(cfg, eng[1])]
    /\ last' = [NoStep EXCEPT !.call = "reset"]
    /\ UNCHANGED <<ring, pushed, store, sims, report, cfg, seed, run>>

Next == Step \/ Reset

Spec == Init /\ [][Next]_vars

\* ------------------------------------------------ sub-path specification
\* runFullSimulation() on engines that only walk the Hepta / Okta sub-paths,
\* built without a seed: every call of rng() may return any value.
SubPathSettings ==
    {{}, {[DEFAULT_GAME_SETTINGS EXCEPT !.heptaOktaAnvilPity = 2]}}

SubPathConfigs ==
    {MkConfig(lv[1], lv[2], 0, lv[1] = 7, lv[2] = 9,
              IF lv[1] = 7 THEN startH ELSE 0, IF lv[1] = 8 THEN startO ELSE 0,
              <<0, 0, 0>>, p, g) :
        lv \in {<<7, 8>>, <<8, 9>>, <<7, 9>>},
        startH \in {0, 3}, startO \in {0, 8},
        p \in Prices, g \in SubPathSettings}

InitSub ==
    /\ cfg \in SubPathConfigs
    /\ seed = {}
    /\ eng = [i \in 1 .. 2 |-> Engine(cfg, seed)]
    /\ run = [i \in 1 .. 2 |-> IdleRun]
    /\ last = NoStep
    /\ sims = <<>>
    /\ report = NoReport
    /\ store = NoStore
    /\ ring = NoRing
    /\ pushed = <<>>

\* `while (!this.isComplete()) this.step()`: one iteration of
\* runFullSimulation on engine 1.
FullSimulationStep ==
    /\ ~isComplete(cfg, eng[1])
    /\ eng[1].attempts < MaxSubAttempts
    /\ \E d1 \in rngDraws(eng[1].rng, 0), d2 \in rngDraws(eng[1].rng, 1) :
          LET out == step(cfg, eng[1], d1, d2)
          IN  /\ eng' = [eng EXCEPT ![1] = out.eng]
              /\ last' = out.res
    /\ UNCHANGED <<ring, pushed, store, sims, report, cfg, seed, run>>

NextSub == FullSimulationStep

SpecSub == InitSub /\ [][NextSub]_vars

\* ---------------------------------------------------- pity specification
\* runFullSimulation() on engines that mix the sub-paths with normal attempts
\* at tiers 9 and 10, built without a seed, under settings (as the settings
\* page can save them) whose pity thresholds are low enough to be reached
\* again and again.
LowPitySettings ==
    {[DEFAULT_GAME_SETTINGS EXCEPT !.heptaOktaAnvilPity = 2,
                                   !.anvilThresholds[9] = 2,
                                   !.anvilThresholds[10] = 1]}

PityConfigs ==
    LET all ==
            {MkConfig(lv[1], lv[2], rest, lv[1] = 7, useO,
                      IF lv[1] = 7 THEN startH ELSE 0,
                      IF lv[1] = 8 THEN startO ELSE 0,
                      <<0, 0, 0>>, p, {g}) :
                lv \in {<<7, 9>>, <<8, 10>>, <<7, 10>>},
                rest \in {0, 8}, useO \in BOOLEAN,
                startH \in {0, 3}, startO \in {0, 8},
                p \in Prices, g \in LowPitySettings}
    IN  {c \in all : c.startLevel = 8 => c.useOkta}

InitPity ==
    /\ cfg \in PityConfigs
    /\ seed = {}
    /\ eng = [i \in 1 .. 2 |-> Engine(cfg, seed)]
    /\ run = [i \in 1 .. 2 |-> IdleRun]
    /\ last = NoStep
    /\ sims = <<>>
    /\ report = NoReport
    /\ store = NoStore
    /\ ring = NoRing
    /\ pushed = <<>>

NextPity == FullSimulationStep

SpecPity == InitPity /\ [][NextPity]_vars

\* ------------------------------------------------ runner specification
\* Two engines are constructed independently with the same configuration and
\* seed.  A runner call is synchronous: while one is in its loop nothing else
\* runs.  Engine 2 is driven once engine 1's call has returned, by the same
\* runner or by the runner engine 1's is compared with.
RunConfigs ==
    {MkConfig(lv[1], lv[2], rest, FALSE, FALSE, 0, 0, v, p, {}) :
        lv \in {<<0, 2>>, <<1, 3>>, <<2, 4>>, <<3, 3>>},
        rest \in {0, 2}, v \in {<<0, 0, 0>>, <<1, 3, 5>>, <<1, 1, 1>>, <<2, 2, 0>>},
        p \in Prices}
    \cup
    {MkConfig(0, 2, rest, FALSE, FALSE, 0, 0, <<0, 2, 0>>, p, {CustomGameSettings}) :
        rest \in {0, 1}, p \in Prices}
    \cup
    {MkConfig(7, 8, 7, TRUE, FALSE, 3, 0, <<0, 0, 0>>, p, {CustomGameSettings}) :
        p \in Prices}
    \cup
    {MkConfig(lv[1], lv[2], 7, useH, useO,
              IF lv[1] = 7 THEN startH ELSE 0, IF lv[1] = 8 THEN startO ELSE 0,
              <<0, 0, 8>>, p, {}) :
        lv \in {<<6, 8>>, <<7, 9>>, <<8, 9>>},
        useH \in BOOLEAN, useO \in BOOLEAN,
        startH \in {0, 3}, startO \in {0, 8}, p \in Prices}

InitRun ==
    /\ cfg \in RunConfigs
    /\ seed \in {{s} : s \in Seeds}
    /\ eng = [i \in 1 .. 2 |-> Engine(cfg, seed)]
    /\ run = [i \in 1 .. 2 |-> IdleRun]
    /\ last = NoStep
    /\ sims = <<>>
    /\ report = NoReport
    /\ store = NoStore
    /\ ring = NoRing
    /\ pushed = <<>>

Busy == \E i \in 1 .. 2 : run[i].pc = "loop"

\* Whether the caller may call runner `kind` with `lim` on engine i now.
MayCall(i, kind, lim) ==
    /\ run[i].pc = "idle"
    /\ ~Busy
    /\ i = 2 =>
        /\ run[1].pc = "done"
        /\ \/ kind = run[1].kind /\ lim = run[1].limits
           \/ kind = "fast" /\ run[1].kind = "full"
           \/ kind = "limits" /\ run[1].kind = "fast" /\ lim = Unlimited

\* engine.runFullSimulation() is called.
StartFull(i) ==
    /\ MayCall(i, "full", Unlimited)
    /\ run' = [run EXCEPT ![i] = [IdleRun EXCEPT !.kind = "full", !.pc = "loop",
                                                 !.previous = run[i].previous]]
    /\ UNCHANGED <<ring, pushed, store, sims, report, cfg, seed, eng, last>>

\* `while (!this.isComplete()) this.step()`: one iteration.
FullIter(i) ==
    /\ run[i].kind = "full" /\ run[i].pc = "loop"
    /\ ~isComplete(cfg, eng[i])
    /\ run[i].iters < MaxAttempts
    /\ \E d1 \in rngDraws(eng[i].rng, 0), d2 \in rngDraws(eng[i].rng, 1) :
          LET out == step(cfg, eng[i], d1, d2)
          IN  /\ eng' = [eng EXCEPT ![i] = out.eng]
              /\ last' = out.res
    /\ run' = [run EXCEPT ![i].iters = @ + 1]
    /\ UNCHANGED <<ring, pushed, store, sims, report, cfg, seed>>

\* runFullSimulation() returns the totals.
FullReturn(i) ==
    /\ run[i].kind = "full" /\ run[i].pc = "loop"
    /\ isComplete(cfg, eng[i])
    /\ run' = [run EXCEPT ![i].pc = "done", ![i].result = fullResult(eng[i])]
    /\ UNCHANGED <<ring, pushed, store, sims, report, cfg, seed, eng, last>>

\* engine.runFast() is called.
StartFast(i) ==
    /\ MayCall(i, "fast", Unlimited)
    /\ run' = [run EXCEPT ![i] = [IdleRun EXCEPT !.kind = "fast", !.pc = "loop",
                                                 !.loc = fastLocals(eng[i])]]
    /\ UNCHANGED <<ring, pushed, store, sims, report, cfg, seed, eng, last>>

\* `while (level < targetLevel)`: one iteration of runFast.
FastIter(i) ==
    /\ run[i].kind = "fast" /\ run[i].pc = "loop"
    /\ run[i].loc.level < cfg.targetLevel
    /\ run[i].iters < MaxAttempts
    /\ \E d1 \in rngDraws(eng[i].rng, 0), d2 \in rngDraws(eng[i].rng, 1) :
          LET out == runFastBody(cfg, eng[i], run[i].loc, d1, d2)
          IN  /\ eng' = [eng EXCEPT ![i] = out.eng]
              /\ run' = [run EXCEPT ![i].loc = out.loc, ![i].iters = @ + 1]
    /\ UNCHANGED <<ring, pushed, store, sims, report, cfg, seed, last>>

\* runFast() returns its tuple.
FastReturn(i) ==
    /\ run[i].kind = "fast" /\ run[i].pc = "loop"
    /\ ~(run[i].loc.level < cfg.targetLevel)
    /\ run' = [run EXCEPT ![i].pc = "done", ![i].result = fastResult(run[i].loc)]
    /\ UNCHANGED <<ring, pushed, store, sims, report, cfg, seed, eng, last>>

\* engine.runFastWithLimits(lim) is called.
StartLimits(i) ==
    \E lim \in LimitSets :
        /\ MayCall(i, "limits", lim)
        /\ run' = [run EXCEPT ![i] = [IdleRun EXCEPT !.kind = "limits", !.pc = "loop",
                                                     !.limits = lim,
                                                     !.loc = fastLocals(eng[i])]]
        /\ UNCHANGED <<ring, pushed, store, sims, report, cfg, seed, eng, last>>

\* One iteration of runFastWithLimits, which may return [..., 0] from inside.
LimitsIter(i) ==
    /\ run[i].kind = "limits" /\ run[i].pc = "loop"
    /\ run[i].loc.level < cfg.targetLevel
    /\ run[i].iters < MaxAttempts
    /\ \E d1 \in rngDraws(eng[i].rng, 0), d2 \in rngDraws(eng[i].rng, 1) :
          LET out == runFastWithLimitsBody(cfg, eng[i], run[i].limits,
                                           run[i].loc, d1, d2)
          IN  /\ eng' = [eng EXCEPT ![i] = out.eng]
              /\ run' = [run EXCEPT
                            ![i].loc = out.loc,
                            ![i].iters = @ + 1,
                            ![i].pc = IF out.ret = "fail" THEN "done" ELSE @,
                            ![i].result = IF out.ret = "fail"
                                          THEN limitsResult(out.loc, 0) ELSE @]
    /\ UNCHANGED <<ring, pushed, store, sims, report, cfg, seed, last>>

\* runFastWithLimits() leaves its loop and returns [..., 1].
LimitsReturn(i) ==
    /\ run[i].kind = "limits" /\ run[i].pc = "loop"
    /\ ~(run[i].loc.level < cfg.targetLevel)
    /\ run' = [run EXCEPT ![i].pc = "done",
                          ![i].result = limitsResult(run[i].loc, 1)]
    /\ UNCHANGED <<ring, pushed, store, sims, report, cfg, seed, eng, last>>

NextRun ==
    \E i \in 1 .. 2 :
        \/ StartFull(i)
        \/ FullIter(i)
        \/ FullReturn(i)
        \/ StartFast(i)
        \/ FastIter(i)
        \/ FastReturn(i)
        \/ StartLimits(i)
        \/ LimitsIter(i)
        \/ LimitsReturn(i)

SpecRun == InitRun /\ [][NextRun]_vars

\* ------------------------------------------- aggregation specification
\* The configuration of the batch: the strategy workers build every engine of
\* a batch from one configuration, without a seed.
\* A batch of 0 .. MaxSims simulations has been run; nothing aggregated yet.
InitStats ==
    /\ cfg = StrategyConfig
    /\ seed = {}
    /\ eng = [i \in 1 .. 2 |-> Engine(cfg, seed)]
    /\ run = [i \in 1 .. 2 |-> IdleRun]
    /\ last = NoStep
    /\ sims \in UNION {[1 .. n -> SimTotals] : n \in 0 .. MaxSims}
    /\ report = NoReport
    /\ store = NoStore
    /\ ring = NoRing
    /\ pushed = <<>>

\* runMonteCarlo's statistics are computed from the batch.
RunMonteCarlo ==
    /\ report = NoReport
    /\ report' = runMonteCarlo(sims)
    /\ UNCHANGED <<ring, pushed, cfg, seed, eng, run, last, sims, store>>

\* runRestorationStrategy pushes the result of one restoration option.
RunRestorationStrategy ==
    /\ report = NoReport
    /\ report' = runRestorationStrategy(sims)
    /\ UNCHANGED <<ring, pushed, cfg, seed, eng, run, last, sims, store>>

\* runHeptaOktaStrategy pushes the result of one Hepta / Okta option.
RunHeptaOktaStrategy ==
    /\ report = NoReport
    /\ report' = runHeptaOktaStrategy(sims)
    /\ UNCHANGED <<ring, pushed, cfg, seed, eng, run, last, sims, store>>

NextStats == RunMonteCarlo \/ RunRestorationStrategy \/ RunHeptaOktaStrategy

SpecStats == InitStats /\ [][NextStats]_vars

\* ------------------------------------------------ run history specification
InitStore ==
    /\ cfg \in {c \in LowConfigs : c.startLevel = 0 /\ c.targetLevel = 2
                                   /\ c.restorationFrom = 0
                                   /\ c.valks10From = 0}
    /\ seed = {}
    /\ eng = [i \in 1 .. 2 |-> Engine(cfg, seed)]
    /\ run = [i \in 1 .. 2 |-> IdleRun]
    /\ last = NoStep
    /\ sims = <<>>
    /\ report = NoReport
    /\ store = NoStore
    /\ ring = NoRing
    /\ pushed = <<>>

\* The page saves the run it shows.  Date.now() does not run backwards and
\* may return the value it returned to the save before.
SaveCurrentRun ==
    /\ store.saves < MaxSaves
    /\ \E historyLength \in {0, 1}, timestamp \in {store.now, store.now + 1} :
          store' = [store EXCEPT
                       !.savedRuns = saveCurrentRun(@, historyLength,
                                                    store.saves + 1, timestamp),
                       !.now = timestamp,
                       !.saves = store.saves + 1]
    /\ UNCHANGED <<ring, pushed, cfg, seed, eng, run, last, sims, report>>

\* The user deletes a run of the list.
DeleteRun ==
    /\ \E i \in 1 .. Len(store.savedRuns) :
          store' = [store EXCEPT
                       !.savedRuns = deleteRun(@, store.savedRuns[i].id)]
    /\ UNCHANGED <<ring, pushed, cfg, seed, eng, run, last, sims, report>>

\* The user pins or unpins a run of the list.
TogglePinRun ==
    /\ \E i \in 1 .. Len(store.savedRuns) :
          store' = [store EXCEPT
                       !.savedRuns = togglePinRun(@, store.savedRuns[i].id)]
    /\ UNCHANGED <<ring, pushed, cfg, seed, eng, run, last, sims, report>>

\* clearAllRuns()
ClearAllRuns ==
    /\ store.savedRuns # <<>>
    /\ store' = [store EXCEPT !.savedRuns = <<>>]
    /\ UNCHANGED <<ring, pushed, cfg, seed, eng, run, last, sims, report>>

NextStore == SaveCurrentRun \/ DeleteRun \/ TogglePinRun \/ ClearAllRuns

SpecStore == InitStore /\ [][NextStore]_vars

\* ------------------------------------------------ termination specification
\* runFullSimulation() and runFast() with no bound on the number of
\* iterations, on engines built without a seed.  The loops only write the
\* run counters, and read a tier's pity energy only where the tier has a
\* threshold, so counters above LiveCap are not told apart.
LiveConfigs ==
    {MkConfig(lv[1], lv[2], rest, FALSE, FALSE, 0, 0, v, p, {}) :
        lv \in {<<0, 2>>, <<0, 3>>, <<1, 3>>, <<2, 4>>},
        rest \in {0, 2}, v \in {<<0, 0, 0>>, <<1, 3, 5>>}, p \in Prices}
    \cup PityConfigs

capEnergy(c, anvilEnergy) ==
    [k \in DOMAIN anvilEnergy |->
        Min(anvilEnergy[k], Max(Get(GS(c).anvilThresholds, k, 0), LiveCap))]

capEngine(c, e) ==
    [e EXCEPT !.anvilEnergy = capEnergy(c, @),
              !.crystals = Min(@, LiveCap),
              !.scrolls = Min(@, LiveCap),
              !.silver = Min(@, LiveCap),
              !.exquisiteCrystals = Min(@, LiveCap),
              !.valks10Used = Min(@, LiveCap),
              !.valks50Used = Min(@, LiveCap),
              !.valks100Used = Min(@, LiveCap),
              !.attempts = Min(@, LiveCap)]

capLocals(loc) ==
    [loc EXCEPT !.crystals = Min(@, LiveCap),
                !.scrolls = Min(@, LiveCap),
                !.silver = Min(@, LiveCap),
                !.exquisiteCrystals = Min(@, LiveCap),
                !.valks10Used = Min(@, LiveCap),
                !.valks50Used = Min(@, LiveCap),
                !.valks100Used = Min(@, LiveCap)]

\* The rate the success roll of the next step() is compared with.
rollRate(c, e) ==
    IF shouldUseHepta(c, e) \/ shouldUseOkta(c, e) THEN GS(c).heptaOktaSuccessRate
    ELSE baseRateOf(c, selectValks(c, e.level + 1), e.level + 1)

\* The rate the success roll of runFast's next iteration is compared with.
fastRollRate(c, loc) ==
    IF fastHeptaCond(c, loc) \/ fastOktaCond(c, loc) THEN GS(c).heptaOktaSuccessRate
    ELSE baseRateOf(c, selectValks(c, loc.level + 1), loc.level + 1)

\* The draws below a rate.
SuccessRange(rate) == {d \in DrawSet : d < rate}

InitLive ==
    /\ cfg \in LiveConfigs
    /\ seed = {}
    /\ eng = [i \in 1 .. 2 |-> Engine(cfg, seed)]
    /\ run = [i \in 1 .. 2 |-> IdleRun]
    /\ last = NoStep
    /\ sims = <<>>
    /\ report = NoReport
    /\ store = NoStore
    /\ ring = NoRing
    /\ pushed = <<>>

\* One iteration of runFullSimulation's loop whose success roll is in D.
LiveFullIterOn(i, D) ==
    /\ run[i].kind = "full" /\ run[i].pc = "loop"
    /\ ~isComplete(cfg, eng[i])
    /\ \E d1 \in rngDraws(eng[i].rng, 0) \cap D, d2 \in rngDraws(eng[i].rng, 1) :
          LET out == step(cfg, eng[i], d1, d2)
          IN  /\ eng' = [eng EXCEPT ![i] = capEngine(cfg, out.eng)]
              /\ last' = out.res
    /\ UNCHANGED <<ring, pushed, store, sims, report, cfg, seed, run>>

LiveFullIter(i) == LiveFullIterOn(i, DrawSet)

\* One iteration of runFast's loop whose success roll is in D.
LiveFastIterOn(i, D) ==
    /\ run[i].kind = "fast" /\ run[i].pc = "loop"
    /\ run[i].loc.level < cfg.targetLevel
    /\ \E d1 \in rngDraws(eng[i].rng, 0) \cap D, d2 \in rngDraws(eng[i].rng, 1) :
          LET out == runFastBody(cfg, eng[i], run[i].loc, d1, d2)
          IN  /\ eng' = [eng EXCEPT ![i] = capEngine(cfg, out.eng)]
              /\ run' = [run EXCEPT ![i].loc = capLocals(out.loc)]
    /\ UNCHANGED <<ring, pushed, store, sims, report, cfg, seed, last>>

LiveFastIter(i) == LiveFastIterOn(i, DrawSet)

NextLive ==
    \/ StartFull(1)
    \/ LiveFullIter(1)
    \/ FullReturn(1)
    \/ StartFast(1)
    \/ LiveFastIter(1)
    \/ FastReturn(1)

\* An iteration at tier k, of either runner, whose success roll is in the
\* success range.
SuccessDraw(k) ==
    \/ /\ eng[1].level = k
       /\ LiveFullIterOn(1, SuccessRange(rollRate(cfg, eng[1])))
    \/ /\ run[1].loc.level = k
       /\ LiveFastIterOn(1, SuccessRange(fastRollRate(cfg, run[1].loc)))

\* A loop whose condition is false is left.
LoopExit == FullReturn(1) \/ FastReturn(1)

\* The generator is fair: at a tier that is attempted again and again, the
\* success roll is not outside the success range every time.
FairGenerator ==
    /\ WF_vars(LoopExit)
    /\ \A k \in 0 .. 9 : SF_vars(SuccessDraw(k))

SpecLive == InitLive /\ [][NextLive]_vars /\ FairGenerator

\* ------------------------------------------------------ replay specification
\* A caller runs runFullSimulation() on a seeded engine, calls reset() and
\* runs it again.
ReplayConfigs ==
    {MkConfig(lv[1], lv[2], rest, FALSE, FALSE, 0, 0, v, p, {}) :
        lv \in {<<0, 2>>, <<1, 3>>, <<2, 4>>},
        rest \in {0, 2}, v \in {<<0, 0, 0>>, <<1, 3, 5>>}, p \in Prices}

InitReplay ==
    /\ cfg \in ReplayConfigs
    /\ seed \in {{s} : s \in Seeds}
    /\ eng = [i \in 1 .. 2 |-> Engine(cfg, seed)]
    /\ run = [i \in 1 .. 2 |-> IdleRun]
    /\ last = NoStep
    /\ sims = <<>>
    /\ report = NoReport
    /\ store = NoStore
    /\ ring = NoRing
    /\ pushed = <<>>

\* The caller keeps the totals the run returned and calls engine.reset().
ResetAfterRun ==
    /\ run[1].pc = "done"
    /\ run[1].previous = <<>>
    /\ eng' = [eng EXCEPT ![1] = reset(cfg, eng[1])]
    /\ run' = [run EXCEPT ![1] = [IdleRun EXCEPT !.previous = <<run[1].result>>]]
    /\ last' = [NoStep EXCEPT !.call = "reset"]
    /\ UNCHANGED <<ring, pushed, store, sims, report, cfg, seed>>

NextReplay ==
    \/ StartFull(1)
    \/ FullIter(1)
    \/ FullReturn(1)
    \/ ResetAfterRun

SpecReplay == InitReplay /\ [][NextReplay]_vars

\* ------------------------------------------------ ring buffer specification
\* A RingBuffer of some capacity has been constructed; pushed records the
\* items pushed since the last clear(), oldest first.
InitRing ==
    /\ cfg \in {c \in LowConfigs : c.startLevel = 0 /\ c.targetLevel = 2
                                   /\ c.restorationFrom = 0
                                   /\ c.valks10From = 0}
    /\ seed = {}
    /\ eng = [i \in 1 .. 2 |-> Engine(cfg, seed)]
    /\ run = [i \in 1 .. 2 |-> IdleRun]
    /\ last = NoStep
    /\ sims = <<>>
    /\ report = NoReport
    /\ store = NoStore
    /\ ring \in {RingBuffer(capacity) : capacity \in 1 .. MaxCapacity}
    /\ pushed = <<>>

Push ==
    /\ Len(pushed) < MaxPushes
    /\ \E item \in Items :
          /\ ring' = push(ring, item)
          /\ pushed' = Append(pushed, item)
    /\ UNCHANGED <<cfg, seed, eng, run, last, sims, report, store>>

Clear ==
    /\ ring' = clear(ring)
    /\ pushed' = <<>>
    /\ UNCHANGED <<cfg, seed, eng, run, last, sims, report, store>>

NextRing == Push \/ Clear

SpecRing == InitRing /\ [][NextRing]_vars

\* ---------------------------------------------- configuration specification
\* The configuration page edits the stored configuration.
SetConfig ==
    /\ \E partial \in PageCalls(store.config) :
          store' = [store EXCEPT !.config = setConfig(@, partial)]
    /\ UNCHANGED <<ring, pushed, cfg, seed, eng, run, last, sims, report>>

\* resetConfig()
ResetConfig ==
    /\ store' = [store EXCEPT !.config = DEFAULT_CONFIG]
    /\ UNCHANGED <<ring, pushed, cfg, seed, eng, run, last, sims, report>>

NextConfig == SetConfig \/ ResetConfig

SpecConfig == InitStore /\ [][NextConfig]_vars

\* ------------------------------------------------------------- claims
BothDone == run[1].pc = "done" /\ run[2].pc = "done"

\* C1: two engines constructed independently with the same configuration and
\* seed and driven to completion by the same runner (with the same limits)
\* return identical totals, field for field, and end with the same pity map.
C1_Determinism ==
    (BothDone /\ run[1].kind = run[2].kind /\ run[1].limits = run[2].limits)
        => /\ run[1].result = run[2].result
           /\ eng[1].anvilEnergy = eng[2].anvilEnergy

C1_Witness ==
    /\ BothDone
    /\ run[1].kind = "full" /\ run[2].kind = "full"
    /\ run[1].result.attempts >= 3
    /\ run[1].result.scrolls > 0

\* C2: runFast() on a fresh engine returns the crystals, scrolls, silver,
\* exquisite-crystal and buff-item counts that runFullSimulation() returns on
\* another fresh engine with the same configuration and seed.
C2_FastEqualsFull ==
    (BothDone /\ run[1].kind = "full" /\ run[2].kind = "fast")
        => LET f == run[1].result
               t == run[2].result
           IN  /\ t[1] = f.crystals
               /\ t[2] = f.scrolls
               /\ t[3] = f.silver
               /\ t[4] = f.exquisiteCrystals
               /\ t[5] = f.valks10Used
               /\ t[6] = f.valks50Used
               /\ t[7] = f.valks100Used

C2_Witness ==
    /\ BothDone
    /\ run[1].kind = "full" /\ run[2].kind = "fast"
    /\ run[2].result[1] >= 2
    /\ run[2].result[2] > 0
    /\ run[2].result[4] > 0

\* C3: runFastWithLimits with every cap undefined returns exactly the seven
\* totals runFast returns for the same configuration and seed, and success = 1.
C3_UnlimitedEqualsFast ==
    (BothDone /\ run[1].kind = "fast" /\ run[2].kind = "limits"
        /\ run[2].limits = Unlimited)
        => run[2].result = Append(run[1].result, 1)

C3_Witness ==
    /\ BothDone
    /\ run[1].kind = "fast" /\ run[2].kind = "limits"
    /\ run[2].limits = Unlimited
    /\ run[2].result[1] >= 3
    /\ run[2].result[2] > 0
    /\ run[2].result[5] + run[2].result[6] + run[2].result[7] > 0

\* The step from the current state to the next is one iteration of engine i's
\* runFastWithLimits loop.
IsLimitsIter(i) ==
    /\ run[i].kind = "limits" /\ run[i].pc = "loop"
    /\ run'[i].iters = run[i].iters + 1

\* That iteration is a normal attempt (or the crystal check before it).
NormalTurn(i) == ~fastHeptaCond(cfg, run[i].loc) /\ ~fastOktaCond(cfg, run[i].loc)

\* One more crystal would exceed the crystal cap.
CrystalExceeds(i) ==
    /\ NormalTurn(i)
    /\ Defined(run[i].limits.crystals)
    /\ run[i].loc.crystals + 1 > Val(run[i].limits.crystals)

\* The buff the configuration selects for the attempt, and its cap is used up.
ValksExceeds(i) ==
    LET t == selectValks(cfg, run[i].loc.level + 1)
        cap == IF t = "100" THEN run[i].limits.valks100
               ELSE IF t = "50" THEN run[i].limits.valks50
               ELSE run[i].limits.valks10
        used == IF t = "100" THEN run[i].loc.valks100Used
                ELSE IF t = "50" THEN run[i].loc.valks50Used
                ELSE run[i].loc.valks10Used
    IN  /\ NormalTurn(i)
        /\ t # "null"
        /\ Defined(cap)
        /\ used + 1 > Val(cap)

\* The attempt of the iteration failed with downgrade-prevention active, and
\* one more restoration would exceed the scroll cap.
ScrollExceeds(i) ==
    LET next == run[i].loc.level + 1
    IN  /\ NormalTurn(i)
        /\ run'[i].loc.crystals = run[i].loc.crystals + 1
        /\ Get(eng'[i].anvilEnergy, next, 0) = Get(eng[i].anvilEnergy, next, 0) + 1
        /\ run[i].loc.level > 0
        /\ cfg.restorationFrom > 0
        /\ run[i].loc.level >= cfg.restorationFrom
        /\ Defined(run[i].limits.scrolls)
        /\ run[i].loc.scrolls + RESTORATION_PER_ATTEMPT > Val(run[i].limits.scrolls)

\* The run ends in this step with success = 0 and the totals so far.
FailsHere(i) ==
    /\ run'[i].pc = "done"
    /\ run'[i].result = Append(fastResult(run[i].loc), 0)

\* C8 as stated: for each capped consumable (crystals, scrolls, each buff),
\* when its next spend would exceed the cap the run terminates there with
\* success = 0 and the totals so far.
C8_Original ==
    [][\A i \in 1 .. 2 :
          (IsLimitsIter(i)
              /\ (CrystalExceeds(i) \/ ValksExceeds(i) \/ ScrollExceeds(i)))
            => FailsHere(i)]_vars

\* C8 amended: only the crystal cap ends the run (success = 0, totals so far).
\* When a restoration would exceed the scroll cap the run goes on without it:
\* no scrolls are spent and the tier decrements by one.  When the selected
\* buff's cap is used up the attempt is made without that buff and the run
\* goes on.
C8_CrystalCapEndsRun ==
    [][\A i \in 1 .. 2 :
          IsLimitsIter(i) =>
            /\ CrystalExceeds(i) => FailsHere(i)
            /\ (~CrystalExceeds(i) /\ ScrollExceeds(i)) =>
                  /\ run'[i].pc = "loop"
                  /\ run'[i].loc.scrolls = run[i].loc.scrolls
                  /\ run'[i].loc.level = run[i].loc.level - 1
            /\ (~CrystalExceeds(i) /\ ValksExceeds(i)) =>
                  /\ run'[i].pc = "loop"
                  /\ run'[i].loc.crystals = run[i].loc.crystals + 1
                  /\ LET t == selectValks(cfg, run[i].loc.level + 1)
                     IN  /\ t = "100" =>
                               run'[i].loc.valks100Used = run[i].loc.valks100Used
                         /\ t = "50" =>
                               run'[i].loc.valks50Used = run[i].loc.valks50Used
                         /\ t = "10" =>
                               run'[i].loc.valks10Used = run[i].loc.valks10Used]_vars

C8_Witness ==
    /\ run[1].kind = "limits" /\ run[1].pc = "done"
    /\ run[1].result[8] = 0
    /\ run[1].limits.crystals = {CrystalCap}
    /\ run[1].result[1] = CrystalCap

\* C9: at every point of a runFastWithLimits run and in its returned totals,
\* for every defined (non-negative) cap the count is at most the cap.
WithinCap(cap, n) == Defined(cap) => n <= Val(cap)

C9_NoOverspend ==
    \A i \in 1 .. 2 :
        run[i].kind = "limits" =>
            LET lim == run[i].limits
                loc == run[i].loc
                r == run[i].result
            IN  /\ WithinCap(lim.crystals, loc.crystals)
                /\ WithinCap(lim.scrolls, loc.scrolls)
                /\ WithinCap(lim.valks10, loc.valks10Used)
                /\ WithinCap(lim.valks50, loc.valks50Used)
                /\ WithinCap(lim.valks100, loc.valks100Used)
                /\ run[i].pc = "done" =>
                      /\ WithinCap(lim.crystals, r[1])
                      /\ WithinCap(lim.scrolls, r[2])
                      /\ WithinCap(lim.valks10, r[5])
                      /\ WithinCap(lim.valks50, r[6])
                      /\ WithinCap(lim.valks100, r[7])

C9_Witness ==
    /\ run[1].kind = "limits" /\ run[1].pc = "done"
    /\ run[1].result[8] = 1
    /\ Defined(run[1].limits.scrolls) /\ Defined(run[1].limits.valks10)
    /\ run[1].result[2] = RESTORATION_PER_ATTEMPT
    /\ run[1].result[5] = Val(run[1].limits.valks10)
    /\ run[1].result[1] > run[1].result[5]

\* C4: when the pity energy of the next tier T is at or above T's threshold
\* and the threshold is above 0, the normal attempt at T succeeds for every
\* draw; with threshold 0 pity never forces a success (the attempt succeeds
\* only on a draw below the rate).
C4_PityGuarantee ==
    LET e == eng[1]
        T == e.level + 1
        energy == Get(e.anvilEnergy, T, 0)
        thr == Get(GS(cfg).anvilThresholds, T, 999)
        normal == /\ ~isComplete(cfg, e)
                  /\ ~shouldUseHepta(cfg, e)
                  /\ ~shouldUseOkta(cfg, e)
    IN  /\ (normal /\ thr > 0 /\ energy >= thr) =>
              \A d1 \in DrawSet, d2 \in DrawSet :
                  LET out == step(cfg, e, d1, d2)
                  IN  out.eng.level = T /\ out.res.success
        /\ (normal /\ thr = 0) =>
              \A d1 \in DrawSet, d2 \in DrawSet :
                  LET out == step(cfg, e, d1, d2)
                  IN  /\ ~out.res.anvilTriggered
                      /\ out.res.success =>
                            d1 < baseRateOf(cfg, selectValks(cfg, T), T)
        /\ (last.call = "ok" /\ last.anvilTriggered) => last.success

C4_Witness ==
    /\ last.call = "ok"
    /\ ~last.isHeptaOkta
    /\ last.anvilTriggered
    /\ last.endingLevel = last.startingLevel + 1
    /\ eng[1].level = last.endingLevel

\* C5: for every tier T with threshold > 0, a failed normal attempt at T
\* raises T's pity energy by exactly 1, a success at T (a normal success or
\* the completion of the sub-path into T) sets it to exactly 0, and every
\* other attempt leaves it unchanged.
C5_PityUpdate ==
    [][(Step /\ last'.call = "ok") =>
          \A T \in 1 .. 10 :
              GS(cfg).anvilThresholds[T] > 0 =>
                  LET before == Get(eng[1].anvilEnergy, T, 0)
                      after == Get(eng'[1].anvilEnergy, T, 0)
                  IN  IF ~last'.isHeptaOkta /\ T = eng[1].level + 1
                      THEN IF last'.success THEN after = 0 ELSE after = before + 1
                      ELSE IF last'.isHeptaOkta /\ last'.pathComplete
                              /\ T = last'.endingLevel
                      THEN after = 0
                      ELSE after = before]_vars

\* A tier's energy is 2 after a failure that followed a downgrade and a
\* re-climb (the attempt before the failed one was not at the same tier).
C5_Witness ==
    /\ last.call = "ok"
    /\ ~last.isHeptaOkta
    /\ ~last.success
    /\ GS(cfg).anvilThresholds[last.startingLevel + 1] > 0
    /\ Get(eng[1].anvilEnergy, last.startingLevel + 1, 0) >= 2
    /\ cfg.restorationFrom = 0
    /\ eng[1].level < last.startingLevel

\* C6: a sub-attempt changes the tier only when it completes the path: the
\* sub-attempt that brings progress to the required count (5 Hepta, 10 Okta)
\* sets the tier to 8 / 9 and resets the path's progress and pity to 0; a
\* failed or a non-completing sub-attempt leaves the tier unchanged.
C6_SubPathTier ==
    [][(Step /\ last'.call = "ok" /\ last'.isHeptaOkta) =>
          LET okta == last'.pathName = "Okta"
              need == IF okta THEN OKTA_SUB_ENHANCEMENTS ELSE HEPTA_SUB_ENHANCEMENTS
              before == IF okta THEN eng[1].oktaProgress ELSE eng[1].heptaProgress
              after == IF okta THEN eng'[1].oktaProgress ELSE eng'[1].heptaProgress
              pity == IF okta THEN eng'[1].oktaPity ELSE eng'[1].heptaPity
          IN  IF last'.success /\ before + 1 = need
              THEN /\ eng'[1].level = (IF okta THEN 9 ELSE 8)
                   /\ after = 0
                   /\ pity = 0
              ELSE /\ eng'[1].level = eng[1].level
                   /\ after = (IF last'.success THEN before + 1 ELSE before)]_vars

C6_Witness ==
    /\ last.call = "ok"
    /\ last.isHeptaOkta
    /\ last.pathComplete
    /\ last.pathName = "Okta"
    /\ eng[1].level = 9
    /\ eng[1].exquisiteCrystals >= OKTA_SUB_ENHANCEMENTS * HEPTA_OKTA_CRYSTALS_PER_ATTEMPT

\* What a returning step() call resolved, read from its effect: a sub-attempt
\* spends exquisite crystals and no crystal, a normal attempt one crystal.
ResolvedSub(name) ==
    /\ last'.isHeptaOkta /\ last'.pathName = name
    /\ eng'[1].exquisiteCrystals = eng[1].exquisiteCrystals
                                      + HEPTA_OKTA_CRYSTALS_PER_ATTEMPT
    /\ eng'[1].crystals = eng[1].crystals

ResolvedNormal ==
    /\ ~last'.isHeptaOkta
    /\ eng'[1].crystals = eng[1].crystals + 1
    /\ eng'[1].exquisiteCrystals = eng[1].exquisiteCrystals

\* C7: at tier 7 with useHepta set or Hepta progress > 0, step() resolves a
\* Hepta sub-attempt; likewise at tier 8 with Okta; otherwise a normal attempt;
\* exactly one of the three per call.  A path that has started (progress or
\* pity above 0) is continued by sub-attempts until it completes.
C7_Dispatch ==
    [][(Step /\ last'.call = "ok") =>
          LET e == eng[1]
              hepta == e.level = 7 /\ (cfg.useHepta \/ e.heptaProgress > 0)
              okta == e.level = 8 /\ (cfg.useOkta \/ e.oktaProgress > 0)
          IN  /\ eng'[1].attempts = e.attempts + 1
              /\ hepta => ResolvedSub("Hepta")
              /\ okta => ResolvedSub("Okta")
              /\ (~hepta /\ ~okta) => ResolvedNormal
              /\ (e.heptaProgress > 0 \/ e.heptaPity > 0) => ResolvedSub("Hepta")
              /\ (e.oktaProgress > 0 \/ e.oktaPity > 0) => ResolvedSub("Okta")]_vars

\* A resumed Hepta path (flag not set) went on after a sub-attempt of its own.
C7_Witness ==
    /\ last.call = "ok"
    /\ last.isHeptaOkta /\ last.pathName = "Hepta"
    /\ ~cfg.useHepta
    /\ eng[1].attempts >= 2
    /\ eng[1].level = 7

\* C10: step() on an engine that has reached its target raises an error and
\* leaves the whole engine state unchanged, the generator included.
C10_StepWhenComplete ==
    [][(Step /\ eng[1].level >= cfg.targetLevel) =>
          /\ last'.call = "threw"
          /\ eng' = eng]_vars

C10_Witness ==
    /\ last.call = "threw"
    /\ eng[1].attempts > 0
    /\ eng[1].level = cfg.targetLevel

\* C11: a configuration whose start tier is at or above its target tier is
\* rejected with an error, at construction or at the first step / run call: no
\* runner call on such an engine returns totals.
C11_StartNotBelowTargetRejected ==
    \A i \in 1 .. 2 :
        cfg.startLevel >= cfg.targetLevel => run[i].pc # "done"

\* C12: with 0 <= start < target <= 10 the tier stays within 0..10 over any
\* sequence of step() calls: a failed attempt at tier 0 leaves the tier at 0
\* and no normal attempt is made towards a tier above 10.
C12_TierRange ==
    [][(Step /\ cfg.startLevel < cfg.targetLevel) =>
          /\ eng[1].level \in 0 .. 10
          /\ eng'[1].level \in 0 .. 10
          /\ (last'.call = "ok" /\ ~last'.isHeptaOkta) =>
                /\ eng[1].level + 1 <= 10
                /\ (~last'.success /\ eng[1].level = 0) => eng'[1].level = 0]_vars

\* A second failed attempt at tier 0 left the tier at 0.
C12_Witness ==
    /\ cfg.startLevel < cfg.targetLevel
    /\ last.call = "ok" /\ ~last.success
    /\ last.startingLevel = 0 /\ last.endingLevel = 0
    /\ eng[1].level = 0
    /\ eng[1].attempts >= 2

\* The counters of engine i's call as they stand: the engine's fields under
\* step() / runFullSimulation(), the locals under runFast / runFastWithLimits.
RunCounters(i) ==
    IF run[i].kind \in {"fast", "limits"} THEN run[i].loc ELSE eng[i]

\* The totals engine i's finished call returned, by name.
ReturnedTotals(i) ==
    LET r == run[i].result
    IN  IF run[i].kind = "full"
        THEN [crystals |-> r.crystals, scrolls |-> r.scrolls, silver |-> r.silver,
              exquisiteCrystals |-> r.exquisiteCrystals,
              valks10Used |-> r.valks10Used, valks50Used |-> r.valks50Used,
              valks100Used |-> r.valks100Used]
        ELSE [crystals |-> r[1], scrolls |-> r[2], silver |-> r[3],
              exquisiteCrystals |-> r[4], valks10Used |-> r[5],
              valks50Used |-> r[6], valks100Used |-> r[7]]

\* Silver of the totals t at the price table, the buffs named FALSE left out
\* and `fee` charged per crystal spent; a restoration attempt spends
\* RESTORATION_PER_ATTEMPT scrolls at the attempt cost of the bundle price.
PricedSilver(t, fee, use10, use50, use100) ==
    t.crystals * (cfg.prices.crystalPrice + fee)
    + (t.scrolls \div RESTORATION_PER_ATTEMPT)
        * getRestorationAttemptCost(cfg.prices.restorationBundlePrice)
    + t.exquisiteCrystals * exquisiteCost(cfg)
    + (IF use10 THEN t.valks10Used * cfg.prices.valks10Price ELSE 0)
    + (IF use50 THEN t.valks50Used * cfg.prices.valks50Price ELSE 0)
    + (IF use100 THEN t.valks100Used * cfg.prices.valks100Price ELSE 0)

\* The buff with threshold 0 is left out of the totals t.
BuffsOffUnused(t) ==
    /\ cfg.valks10From = 0 => t.valks10Used = 0
    /\ cfg.valks50From = 0 => t.valks50Used = 0
    /\ cfg.valks100From = 0 => t.valks100Used = 0
    /\ t.silver = PricedSilver(t, enhancementCost(cfg), cfg.valks10From > 0,
                               cfg.valks50From > 0, cfg.valks100From > 0)

\* C13: a buff whose activation threshold is 0 is never consumed: its counter
\* stays 0, its price is not part of silver and no recorded step names it, in
\* step() (runFullSimulation), runFast and runFastWithLimits, during the run
\* and in the returned totals.
C13_ZeroThresholdDisables ==
    /\ \A i \in 1 .. 2 :
          /\ BuffsOffUnused(RunCounters(i))
          /\ run[i].pc = "done" => BuffsOffUnused(ReturnedTotals(i))
    /\ cfg.valks10From = 0 => last.valksUsed # "10"
    /\ cfg.valks50From = 0 => last.valksUsed # "50"
    /\ cfg.valks100From = 0 => last.valksUsed # "100"

\* Both engines finished (the step-recording run, then the fast run) under a configuration with +100% off and +50% on and used.
C13_Witness ==
    /\ BothDone
    /\ run[1].kind = "full" /\ run[2].kind = "fast"
    /\ cfg.valks100From = 0 /\ cfg.valks50From > 0
    /\ run[2].result[6] >= 2
    /\ run[2].result[1] > run[2].result[6]
    /\ last.valksUsed = "50"

\* The '+'-joined list of the eligible buffs, as the tests spell it.
StackedName(el10, el50, el100) ==
    IF el10 /\ el50 /\ el100 THEN "10+50+100"
    ELSE IF el10 /\ el50 THEN "10+50"
    ELSE IF el10 /\ el100 THEN "10+100"
    ELSE IF el50 /\ el100 THEN "50+100"
    ELSE IF el10 THEN "10"
    ELSE IF el50 THEN "50"
    ELSE IF el100 THEN "100"
    ELSE "null"

\* C14: when several buff thresholds are non-zero and at or below the next
\* tier, one normal attempt applies all of them: it consumes one unit of each
\* eligible buff and reports valksUsed as their '+'-joined list.
C14_BuffsStack ==
    [][(Step /\ last'.call = "ok" /\ ~last'.isHeptaOkta) =>
          LET n == eng[1].level + 1
              el10 == cfg.valks10From > 0 /\ n >= cfg.valks10From
              el50 == cfg.valks50From > 0 /\ n >= cfg.valks50From
              el100 == cfg.valks100From > 0 /\ n >= cfg.valks100From
              several == \/ el10 /\ el50
                         \/ el10 /\ el100
                         \/ el50 /\ el100
          IN  several =>
                /\ last'.valksUsed = StackedName(el10, el50, el100)
                /\ eng'[1].valks10Used = eng[1].valks10Used + (IF el10 THEN 1 ELSE 0)
                /\ eng'[1].valks50Used = eng[1].valks50Used + (IF el50 THEN 1 ELSE 0)
                /\ eng'[1].valks100Used = eng[1].valks100Used
                                             + (IF el100 THEN 1 ELSE 0)]_vars

\* C15 as stated: at every step of every run and in the returned totals,
\* silver is the sum over the recorded consumables of unit price times
\* quantity (crystals, each buff item, restoration scrolls, exquisite crystals
\* at their recipe cost) and contains nothing else.
C15_Original ==
    \A i \in 1 .. 2 :
        /\ RunCounters(i).silver
              = PricedSilver(RunCounters(i), 0, TRUE, TRUE, TRUE)
        /\ run[i].pc = "done" =>
              ReturnedTotals(i).silver
                  = PricedSilver(ReturnedTotals(i), 0, TRUE, TRUE, TRUE)

\* C15 amended: silver is that sum plus the configured enhancement cost per
\* attempt (gameSettings.enhancementCostPerAttempt) for every crystal spent,
\* i.e. for every normal attempt; restoration is priced per attempt of
\* RESTORATION_PER_ATTEMPT scrolls.
C15_Conservation ==
    \A i \in 1 .. 2 :
        /\ RunCounters(i).silver
              = PricedSilver(RunCounters(i), enhancementCost(cfg), TRUE, TRUE, TRUE)
        /\ run[i].pc = "done" =>
              ReturnedTotals(i).silver
                  = PricedSilver(ReturnedTotals(i), enhancementCost(cfg),
                                 TRUE, TRUE, TRUE)

\* A finished capped run that paid the enhancement cost, a buff and a
\* restoration.
C15_Witness ==
    /\ run[1].kind = "limits" /\ run[1].pc = "done"
    /\ enhancementCost(cfg) > 0
    /\ run[1].result[1] >= 2
    /\ run[1].result[2] > 0
    /\ run[1].result[6] > 0
    /\ run[1].result[3] > 0

\* C16: a failed normal attempt at tier L leaves tier 0 at 0; without active
\* downgrade-prevention (restorationFrom = 0 or L < restorationFrom) the tier
\* becomes L - 1 and no scrolls are spent; with it the scrolls of one attempt
\* are spent and the tier is L when prevention succeeds and L - 1 when it
\* fails.  A recorded step with restorationAttempted ends at its starting
\* tier when restorationSuccess and one below otherwise.
C16_FailedAttemptOutcome ==
    [][(Step /\ last'.call = "ok") =>
          LET L == eng[1].level
              active == cfg.restorationFrom > 0 /\ L >= cfg.restorationFrom
              failed == ~last'.isHeptaOkta /\ ~last'.success
          IN  /\ (failed /\ L = 0) => eng'[1].level = 0
              /\ (failed /\ L > 0 /\ ~active) =>
                    /\ eng'[1].level = L - 1
                    /\ eng'[1].scrolls = eng[1].scrolls
                    /\ ~last'.restorationAttempted
              /\ (failed /\ L > 0 /\ active) =>
                    /\ eng'[1].scrolls = eng[1].scrolls + RESTORATION_PER_ATTEMPT
                    /\ last'.restorationAttempted
                    /\ eng'[1].level = (IF last'.restorationSuccess THEN L ELSE L - 1)
              /\ last'.restorationAttempted =>
                    /\ failed
                    /\ last'.startingLevel = L
                    /\ last'.endingLevel = (IF last'.restorationSuccess
                                            THEN last'.startingLevel
                                            ELSE last'.startingLevel - 1)
              /\ (last'.restorationSuccess => last'.restorationAttempted)]_vars

\* A second restoration was spent and did not hold the tier.
C16_Witness ==
    /\ last.call = "ok" /\ ~last.success
    /\ last.restorationAttempted /\ ~last.restorationSuccess
    /\ last.endingLevel = last.startingLevel - 1
    /\ eng[1].level = last.endingLevel
    /\ eng[1].scrolls >= 2 * RESTORATION_PER_ATTEMPT

\* The step from the current state to the next is one loop iteration of
\* engine i's runner in which a restoration was spent.
RestorationSpent(i) ==
    /\ run[i].pc = "loop"
    /\ run'[i].iters = run[i].iters + 1
    /\ IF run[i].kind = "full"
       THEN eng'[i].scrolls = eng[i].scrolls + RESTORATION_PER_ATTEMPT
       ELSE run'[i].loc.scrolls = run[i].loc.scrolls + RESTORATION_PER_ATTEMPT

\* The tier before and after that iteration.
TierBefore(i) == IF run[i].kind = "full" THEN eng[i].level ELSE run[i].loc.level
TierAfter(i) == IF run[i].kind = "full" THEN eng'[i].level ELSE run'[i].loc.level

\* The value of the restoration roll: the second draw of the iteration, the
\* first being the failed success roll.
RestorationDraw(i) == CHOOSE d \in rngDraws(eng[i].rng, 1) : TRUE

\* C17 as stated: with downgrade-prevention spent on a failed attempt, a draw
\* below the item's success probability fails the item and the tier
\* decrements by one; a draw at or above it leaves the tier unchanged.
C17_Original ==
    [][\A i \in 1 .. 2 :
          RestorationSpent(i) =>
              IF RestorationDraw(i) < RESTORATION_SUCCESS_RATE
              THEN TierAfter(i) = TierBefore(i) - 1
              ELSE TierAfter(i) = TierBefore(i)]_vars

\* C17 amended: a draw below the success probability holds the tier; a draw
\* at or above it decrements the tier by one (step, runFast and
\* runFastWithLimits alike).
C17_RestorationRoll ==
    [][\A i \in 1 .. 2 :
          RestorationSpent(i) =>
              IF RestorationDraw(i) < RESTORATION_SUCCESS_RATE
              THEN TierAfter(i) = TierBefore(i)
              ELSE TierAfter(i) = TierBefore(i) - 1]_vars

\* A step-recording run in which a second restoration held the tier.
C17_Witness ==
    /\ run[1].kind = "full"
    /\ last.call = "ok"
    /\ last.restorationAttempted /\ last.restorationSuccess
    /\ eng[1].level = last.startingLevel
    /\ eng[1].scrolls >= 2 * RESTORATION_PER_ATTEMPT

\* v is the element at 0-based position k of vals sorted ascending.
IsOrderStat(vals, k, v) ==
    /\ \E j \in 1 .. Len(vals) : vals[j] = v
    /\ Cardinality({j \in 1 .. Len(vals) : vals[j] < v}) <= k
    /\ Cardinality({j \in 1 .. Len(vals) : vals[j] <= v}) >= k + 1

\* The 0-based index of the p-th percentile among N values.
PctIndex(N, pct) == IF (N * pct) \div 100 < N - 1 THEN (N * pct) \div 100 ELSE N - 1

\* v is the maximum of vals.
IsMax(vals, v) == IsOrderStat(vals, Len(vals) - 1, v)

\* st is the percentile statistics of vals by the index convention.
ByConvention(vals, st) ==
    LET N == Len(vals)
    IN  /\ IsOrderStat(vals, PctIndex(N, 50), st.p50)
        /\ IsOrderStat(vals, PctIndex(N, 90), st.p90)
        /\ IsOrderStat(vals, PctIndex(N, 99), st.p99)
        /\ IsMax(vals, st.worst)
        /\ st.average.den > 0
        /\ st.average.num * N = SeqSum(vals) * st.average.den

\* C18: for a non-empty batch of N values sorted ascending the p-th
\* percentile is the element at index min(floor(N * p), N - 1), not
\* interpolated, worst is the maximum and the mean is the arithmetic average
\* (calcPercentiles; the silver percentiles of the strategy results and of
\* their distribution use the same index).
C18_PercentileConvention ==
    LET N == Len(sims)
        silver == Column(sims, 3)
    IN  N > 0 =>
        /\ report.kind = "monteCarlo" =>
              /\ ByConvention(silver, report.silverCost)
              /\ ByConvention(Column(sims, 1), report.pristineBlackCrystals)
              /\ ByConvention(Column(sims, 2), report.restorationScrolls)
        /\ report.kind \in {"restoration", "heptaOkta"} =>
              /\ IsOrderStat(silver, PctIndex(N, 50), report.p50.silver)
              /\ IsOrderStat(silver, PctIndex(N, 90), report.p90.silver)
              /\ IsMax(silver, report.worst.silver)
              /\ IsOrderStat(silver, PctIndex(N, 10), report.distribution.percentiles.p10)
              /\ IsOrderStat(silver, PctIndex(N, 25), report.distribution.percentiles.p25)
              /\ IsOrderStat(silver, PctIndex(N, 50), report.distribution.percentiles.p50)
              /\ IsOrderStat(silver, PctIndex(N, 75), report.distribution.percentiles.p75)
              /\ IsOrderStat(silver, PctIndex(N, 90), report.distribution.percentiles.p90)
              /\ IsOrderStat(silver, PctIndex(N, 95), report.distribution.percentiles.p95)

\* Statistics of a batch of three runs that came in descending silver order,
\* with a median below the 90th percentile.
C18_Witness ==
    /\ report.kind = "monteCarlo"
    /\ Len(sims) >= 3
    /\ sims[1][3] > sims[2][3] /\ sims[2][3] > sims[3][3]
    /\ report.silverCost.p50 = sims[2][3]
    /\ report.silverCost.p90 = sims[1][3]
    /\ report.silverCost.p50 < report.silverCost.p90

\* Every quantity of the strategy row is the element at 0-based position k
\* of that quantity's own values sorted ascending.
OwnOrderStats(row, k) ==
    /\ IsOrderStat(Column(sims, 1), k, row.crystals)
    /\ IsOrderStat(Column(sims, 2), k, row.scrolls)
    /\ IsOrderStat(Column(sims, 3), k, row.silver)
    /\ IsOrderStat(Column(sims, 5), k, row.valks10)
    /\ IsOrderStat(Column(sims, 6), k, row.valks50)
    /\ IsOrderStat(Column(sims, 7), k, row.valks100)
    /\ report.kind = "heptaOkta" => IsOrderStat(Column(sims, 4), k, row.exquisite)

\* C19: in every strategy result each quantity under p50, p90 and worst is
\* that quantity's own order statistic over the batch (the element at index
\* min(floor(N * p), N - 1) of its values sorted ascending; worst its maximum).
C19_OwnOrderStatistics ==
    report.kind \in {"restoration", "heptaOkta"} =>
        /\ OwnOrderStats(report.p50, PctIndex(Len(sims), 50))
        /\ OwnOrderStats(report.p90, PctIndex(Len(sims), 90))
        /\ OwnOrderStats(report.worst, Len(sims) - 1)

\* p50 <= p90 <= p99 <= worst for one quantity of a Monte Carlo report.
Ordered(st) == st.p50 <= st.p90 /\ st.p90 <= st.p99 /\ st.p99 <= st.worst

\* C20: percentile ordering.  For every non-empty batch, each quantity of the
\* Monte Carlo statistics has p50 <= p90 <= p99 <= worst, and in every strategy
\* result silver has p50 <= p90 <= worst.
C20_PercentileOrdering ==
    Len(sims) > 0 =>
    /\ report.kind = "monteCarlo" =>
           /\ Ordered(report.silverCost)
           /\ Ordered(report.pristineBlackCrystals)
           /\ Ordered(report.restorationScrolls)
    /\ report.kind \in {"restoration", "heptaOkta"} =>
           /\ report.p50.silver <= report.p90.silver
           /\ report.p90.silver <= report.worst.silver

\* A batch whose runs did not finish in order of cost, and whose median is
\* strictly cheaper than its worst run.
C20_Witness ==
    /\ report.kind = "monteCarlo"
    /\ Len(sims) = 3
    /\ sims[1][3] > sims[2][3]
    /\ sims[2][3] > sims[3][3]
    /\ report.silverCost.p50 < report.silverCost.worst

IsFailedRun(t) == t[8] # 1

\* floor((v - lo) / width) in doubles, clamped into 0 .. DEFAULT_NUM_BUCKETS - 1,
\* for a population with minimum lo and maximum hi; the width is 1 when all
\* values are equal.
ClampedIdx(v, lo, hi) ==
    IF lo = hi THEN 0
    ELSE Min((CHOOSE e \in BucketIdxMemo : e[1] = <<v - lo, hi - lo>>)[2],
             DEFAULT_NUM_BUCKETS - 1)

\* d is the histogram of the non-empty population vals.
HistogramOf(vals, d) ==
    LET N == Len(vals)
        B == DEFAULT_NUM_BUCKETS
        lo == CHOOSE v \in {vals[k] : k \in 1 .. N} : \A k \in 1 .. N : v <= vals[k]
        hi == CHOOSE v \in {vals[k] : k \in 1 .. N} : \A k \in 1 .. N : v >= vals[k]
        size(i) == Cardinality({k \in 1 .. N : ClampedIdx(vals[k], lo, hi) = i - 1})
    IN  /\ Len(d.buckets) = B
        /\ \A i \in 1 .. B : d.buckets[i].count = size(i)
        /\ SeqSum([i \in 1 .. B |-> d.buckets[i].count]) = N
        /\ \A i \in 1 .. B :
              d.buckets[i].cumulative = SeqSum([j \in 1 .. i |-> d.buckets[j].count])
        /\ \A i \in 1 .. B - 1 : d.buckets[i].cumulative <= d.buckets[i + 1].cumulative
        /\ d.buckets[B].cumulative = N
        /\ d.buckets[B].cumulativePercentage.den > 0
        /\ d.buckets[B].cumulativePercentage.num
              = 100 * d.buckets[B].cumulativePercentage.den
        /\ lo < hi => d.buckets[B].count >= Cardinality({k \in 1 .. N : vals[k] = hi})
        /\ lo = hi => d.buckets[1].count = N

SuccessesWithin(i, P, lo, hi) ==
    Cardinality({k \in 1 .. Len(sims) :
                    /\ sims[k][8] = 1
                    /\ sims[k][3] * (P - 1) <= lo * (P - 1) + (hi - lo) * i})

\* x is the percentage 100 * n / d.
IsPercentage(x, n, d) == x.den > 0 /\ x.num * d = 100 * n * x.den

\* C22: the survival curve gives, for each of the P equally spaced budget
\* levels from the minimum to the maximum cost, exactly 100 * (number of
\* successful runs whose cost is <= that budget) / N; it is non-decreasing in
\* the budget and its last point equals 100 * successes / N.
C22_SurvivalCurve ==
    \A curve \in (IF report.kind \in {"restoration", "heptaOkta"}
                  THEN report.survivalCurve ELSE {}) :
        LET N == Len(sims)
            P == DEFAULT_NUM_POINTS
            lo == CHOOSE v \in {sims[k][3] : k \in 1 .. N} : \A k \in 1 .. N : v <= sims[k][3]
            hi == CHOOSE v \in {sims[k][3] : k \in 1 .. N} : \A k \in 1 .. N : v >= sims[k][3]
            successes == Cardinality({k \in 1 .. N : sims[k][8] = 1})
        IN  /\ lo < hi =>
                /\ Len(curve) = P
                /\ \A i \in 1 .. P :
                      IsPercentage(curve[i].successProbability,
                                   SuccessesWithin(i - 1, P, lo, hi), N)
            /\ \A i \in 1 .. Len(curve) - 1 :
                  curve[i].successProbability.num <= curve[i + 1].successProbability.num
            /\ IsPercentage(curve[Len(curve)].successProbability, successes, N)

\* The number of runs of the batch that reached the target.
Successes == Cardinality({k \in 1 .. Len(sims) : sims[k][8] = 1})

\* C23: success-rate-aware aggregation.  The completion rate is successes / N
\* (reported in percent); failed runs stay in the population, so the cost
\* percentiles and the mean are over all N runs; expected cost per success is
\* (mean cost over all N runs) / (completion rate) and expected attempts is
\* 1 / (completion rate), both +Infinity when no run succeeded.
C23_SuccessRateAware ==
    report.kind \in {"restoration", "heptaOkta"} =>
        LET N == Len(sims)
            silver == Column(sims, 3)
            total == SeqSum(silver)
        IN  /\ N > 0 =>
                /\ IsPercentage(report.successRate, Successes, N)
                /\ report.meanCostAllRuns.den > 0
                /\ report.meanCostAllRuns.num * N = total * report.meanCostAllRuns.den
                /\ report.distribution.totalCount = N
                /\ IsOrderStat(silver, PctIndex(N, 50), report.p50.silver)
                /\ IsOrderStat(silver, PctIndex(N, 90), report.p90.silver)
                /\ IsMax(silver, report.worst.silver)
            /\ Successes > 0 =>
                /\ report.expectedCostPerSuccess.den > 0
                /\ report.expectedCostPerSuccess.num * Successes
                      = total * report.expectedCostPerSuccess.den
                /\ report.expectedAttempts.den > 0
                /\ report.expectedAttempts.num * Successes
                      = N * report.expectedAttempts.den
            /\ Successes = 0 =>
                /\ report.expectedCostPerSuccess = PositiveInfinity
                /\ report.expectedAttempts = PositiveInfinity

\* Three runs, the dearest of them a failed one that is reported as the worst
\* case, and at least one success.
C23_Witness ==
    /\ report.kind = "restoration"
    /\ Len(sims) = 3
    /\ Successes \in 1 .. 2
    /\ \E k \in 1 .. 3 :
          /\ sims[k][8] = 0
          /\ \A j \in 1 .. 3 : j # k => sims[j][3] < sims[k][3]
          /\ report.worst.silver = sims[k][3]
    /\ report.expectedCostPerSuccess.den > 0

\* x is the number 0.
IsZero(x) == x.den > 0 /\ x.num = 0

ZeroStats(st) ==
    /\ IsZero(st.average)
    /\ st.p50 = 0 /\ st.p90 = 0 /\ st.p99 = 0 /\ st.worst = 0

ZeroRow(row) == \A f \in DOMAIN row : row[f] = 0

\* C24: for a batch of size 0 every statistic the aggregator returns is a
\* well-defined zero or empty value: mean, every percentile, worst and
\* completion rate are 0 and the histogram has no buckets (calcPercentiles,
\* generateDistribution and the strategy results).
C24_EmptyBatchZeroed ==
    Len(sims) = 0 =>
        /\ report.kind = "monteCarlo" =>
              /\ ZeroStats(report.silverCost)
              /\ ZeroStats(report.pristineBlackCrystals)
              /\ ZeroStats(report.restorationScrolls)
        /\ report.kind \in {"restoration", "heptaOkta"} =>
              /\ report.distribution.buckets = <<>>
              /\ \A q \in DOMAIN report.distribution.percentiles :
                    report.distribution.percentiles[q] = 0
              /\ IsZero(report.distribution.stats.mean)
              /\ IsZero(report.successRate)
              /\ IsZero(report.meanCostAllRuns)
              /\ ZeroRow(report.p50) /\ ZeroRow(report.p90) /\ ZeroRow(report.worst)

\* The orders in which the N runs of the batch may complete.
Reorderings(N) ==
    {f \in [1 .. N -> 1 .. N] : \A i, j \in 1 .. N : f[i] = f[j] => i = j}

\* The strategy result computed from the batch b, for the kind of `report`.
ResultOf(b) ==
    IF report.kind = "restoration" THEN runRestorationStrategy(b)
    ELSE runHeptaOktaStrategy(b)

C26_ResetRestoresInitial ==
    last.call = "reset" =>
        /\ eng[1].level = cfg.startLevel
        /\ eng[1].crystals = 0 /\ eng[1].scrolls = 0 /\ eng[1].silver = 0
        /\ eng[1].exquisiteCrystals = 0
        /\ eng[1].valks10Used = 0 /\ eng[1].valks50Used = 0
        /\ eng[1].valks100Used = 0
        /\ eng[1].attempts = 0
        /\ eng[1].anvilEnergy = <<>>
        /\ eng[1].heptaProgress = cfg.startHepta
        /\ eng[1].oktaProgress = cfg.startOkta
        /\ eng[1].heptaPity = 0 /\ eng[1].oktaPity = 0
        /\ cfg.startLevel < cfg.targetLevel => ~(eng[1].level >= cfg.targetLevel)

\* reset() has been called after calls to step() that consumed draws (the
\* generator has moved on) on a configuration whose start is below its target.
C26_Witness ==
    /\ last.call = "reset"
    /\ eng[1].rng.pos # 0
    /\ eng[1].attempts = 0
    /\ cfg.startLevel < cfg.targetLevel

\* The sub-enhancements a run of cfg has to make: the Hepta path when it
\* starts at tier 7, the Okta path when it ends at tier 9, less the progress
\* it starts with.
SubEnhancementsNeeded ==
    (IF cfg.startLevel = 7 THEN GS(cfg).heptaSubEnhancements - cfg.startHepta ELSE 0)
    + (IF cfg.targetLevel = 9
       THEN GS(cfg).oktaSubEnhancements
                - (IF cfg.startLevel = 8 THEN cfg.startOkta ELSE 0)
       ELSE 0)

\* C27: bounded sub-path.  The pity of a path counts its consecutive failed
\* sub-attempts and never exceeds the sub-path pity threshold: the sub-attempt
\* made at the threshold succeeds whatever rng() returns, so a
\* sub-enhancement succeeds within (threshold + 1) consecutive sub-attempts,
\* and a run over the sub-paths takes at most (threshold + 1) attempts per
\* sub-enhancement: 5 * (17 + 1) from tier 7 to 8, 10 * (17 + 1) from 8 to 9.
C27_BoundedSubPath ==
    /\ [](/\ eng[1].heptaPity <= GS(cfg).heptaOktaAnvilPity
          /\ eng[1].oktaPity <= GS(cfg).heptaOktaAnvilPity
          /\ eng[1].attempts
                <= SubEnhancementsNeeded * (GS(cfg).heptaOktaAnvilPity + 1))
    /\ [][(FullSimulationStep /\ last'.call = "ok" /\ last'.isHeptaOkta) =>
             LET okta == last'.pathName = "Okta"
                 before == IF okta THEN eng[1].oktaPity ELSE eng[1].heptaPity
                 after == IF okta THEN eng'[1].oktaPity ELSE eng'[1].heptaPity
             IN  /\ before >= GS(cfg).heptaOktaAnvilPity => last'.success
                 /\ after = (IF last'.success THEN 0 ELSE before + 1)]_vars

\* The worst Okta run under the default settings: every sub-enhancement took
\* 17 failures and the forced success, 180 attempts in all.
C27_Witness ==
    /\ cfg.gameSettings = {}
    /\ cfg.startLevel = 8 /\ cfg.startOkta = 0
    /\ last.call = "ok" /\ last.isHeptaOkta /\ last.anvilTriggered
    /\ last.pathComplete
    /\ eng[1].level = 9
    /\ eng[1].attempts = OKTA_SUB_ENHANCEMENTS * (HEPTA_OKTA_ANVIL_PITY + 1)

\* C28: counter accounting.  A call of step() that throws changes no counter;
\* a normal attempt adds 1 to crystals and to attempts, a sub-attempt adds the
\* crystals per sub-attempt to exquisiteCrystals and 1 to attempts, an attempt
\* with restorationAttempted adds 200 to scrolls, and nothing else changes
\* these counters: scrolls change only on failed normal attempts.  Counted
\* from construction or reset(), where all are 0, crystals is the number of
\* normal attempts, exquisiteCrystals the crystals per sub-attempt times the
\* number of sub-attempts, and attempts their sum.
C28_CounterAccounting ==
    /\ [](/\ eng[1].exquisiteCrystals % GS(cfg).heptaOktaCrystalsPerAttempt = 0
          /\ eng[1].attempts
                = eng[1].crystals
                  + eng[1].exquisiteCrystals \div GS(cfg).heptaOktaCrystalsPerAttempt
          /\ eng[1].scrolls % RESTORATION_PER_ATTEMPT = 0
          /\ eng[1].scrolls <= RESTORATION_PER_ATTEMPT * eng[1].crystals)
    /\ [][Step =>
             LET a == eng[1]
                 b == eng'[1]
                 made == last'.call = "ok"
                 normal == made /\ ~last'.isHeptaOkta
                 sub == made /\ last'.isHeptaOkta
             IN  /\ b.attempts = a.attempts + (IF made THEN 1 ELSE 0)
                 /\ b.crystals = a.crystals + (IF normal THEN 1 ELSE 0)
                 /\ b.exquisiteCrystals
                       = a.exquisiteCrystals
                         + (IF sub THEN GS(cfg).heptaOktaCrystalsPerAttempt ELSE 0)
                 /\ b.scrolls
                       = a.scrolls
                         + (IF made /\ last'.restorationAttempted
                            THEN RESTORATION_PER_ATTEMPT ELSE 0)
                 /\ b.scrolls # a.scrolls => normal /\ ~last'.success]_vars

\* A run that has made normal attempts, one of them with restoration, and
\* then a sub-attempt.
C28_Witness ==
    /\ last.call = "ok" /\ last.isHeptaOkta
    /\ eng[1].crystals >= 2
    /\ eng[1].scrolls > 0
    /\ eng[1].exquisiteCrystals > 0

\* The runs of a list, as a set.
RunsOf(runs) == {runs[i] : i \in 1 .. Len(runs)}

\* C29: run history with pinning.  savedRuns never holds more than
\* MAX_SAVED_RUNS runs; a save removes no run that was pinned when it was
\* made; the runs it removes are unpinned and none of them is newer than an
\* unpinned run it keeps; a save that does not keep its own run (no step
\* history, or every place taken by a pinned run) leaves the list as it was.
C29_PinnedRunsKept ==
    /\ [](Len(store.savedRuns) <= MAX_SAVED_RUNS)
    /\ [][SaveCurrentRun =>
             LET old == RunsOf(store.savedRuns)
                 kept == RunsOf(store'.savedRuns)
                 new == {r \in kept : r.id = store'.saves}
                 gone == old \ kept
             IN  /\ \A r \in old : r.pinned => r \in kept
                 /\ kept \subseteq old \cup {SavedRun(store'.saves, store'.now)}
                 /\ \A r \in gone : ~r.pinned
                 /\ \A r \in gone : \A k \in kept :
                       ~k.pinned => k.timestamp >= r.timestamp
                 /\ new = {} => store'.savedRuns = store.savedRuns]_vars

\* A full list with a pinned run that is older than an unpinned one, after a
\* save that had to evict.
C29_Witness ==
    /\ Len(store.savedRuns) = MAX_SAVED_RUNS
    /\ store.saves > MAX_SAVED_RUNS
    /\ store.savedRuns[1].id = store.saves
    /\ \E i, j \in 1 .. Len(store.savedRuns) :
          /\ store.savedRuns[i].pinned
          /\ ~store.savedRuns[j].pinned
          /\ store.savedRuns[i].id < store.saves - MAX_SAVED_RUNS + 1

\* The multiplier of the buff a normal attempt applied, in tenths.
AppliedMultiplier(valksUsed) ==
    IF valksUsed = "100" THEN VALKS_MULTIPLIER_100
    ELSE IF valksUsed = "50" THEN VALKS_MULTIPLIER_50
    ELSE IF valksUsed = "10" THEN VALKS_MULTIPLIER_10
    ELSE 10

\* Ten times min(1, base rate of tier next * multiplier), in 1/Scale.
EffectiveRateTimes10(next, valksUsed) ==
    LET product == GS(cfg).enhancementRates[next] * AppliedMultiplier(valksUsed)
    IN  IF product < 10 * Scale THEN product ELSE 10 * Scale

\* C30: a normal attempt that the pity does not force succeeds exactly when
\* the draw is below min(1, base rate of the next tier * multiplier of the
\* applied buff).  When that probability is 1 the attempt succeeds for every
\* draw: the tier goes up by one, no pity energy is added and no scroll spent.
C30_EffectiveRate ==
    [][(Step /\ last'.call = "ok" /\ ~last'.isHeptaOkta) =>
          LET next == eng[1].level + 1
              draw == eng[1].rng.tape[eng[1].rng.pos]
              rate10 == EffectiveRateTimes10(next, last'.valksUsed)
          IN  /\ ~last'.anvilTriggered => (last'.success <=> 10 * draw < rate10)
              /\ rate10 = 10 * Scale =>
                    /\ last'.success
                    /\ eng'[1].level = next
                    /\ Get(eng'[1].anvilEnergy, next, 0) = 0
                    /\ eng'[1].scrolls = eng[1].scrolls]_vars

\* An attempt at tier 2 under the x2 buff succeeded on the highest draw.
C30_Witness ==
    /\ last.call = "ok" /\ ~last.isHeptaOkta
    /\ last.valksUsed = "100"
    /\ last.startingLevel = 1
    /\ last.success /\ ~last.anvilTriggered
    /\ eng[1].rng.tape[(eng[1].rng.pos + TapeLen - 1) % TapeLen] = Scale - 1
    /\ eng[1].level = 2

\* The counters a runner works on: the engine's fields for runFullSimulation,
\* the local scalars for runFast and runFastWithLimits.
Counters(i) == IF run[i].kind = "full" THEN eng[i] ELSE run[i].loc

\* A buff is eligible at tier next: its threshold is non-zero and at or below
\* next, and its cap, if there is one, is not used up.
Eligible(from, next, cap, used) ==
    /\ from > 0
    /\ next >= from
    /\ Defined(cap) => used < Val(cap)

C32_DrawsPerAttempt ==
    [][(Step /\ last'.call = "ok") =>
          eng'[1].rng.pos
             = (eng[1].rng.pos + 1
                + (IF last'.restorationAttempted THEN 1 ELSE 0)) % TapeLen]_vars

\* C33: the tier never exceeds the target.  In every state the tier of each
\* engine, and the local tier of a running runFast / runFastWithLimits, is at
\* most the target (all configurations here have start <= target), so the
\* tier is at or above the target exactly when it equals it, and a returned
\* runFullSimulation() reports finalLevel = target.
C33_TierWithinTarget ==
    \A i \in 1 .. 2 :
        /\ eng[i].level <= cfg.targetLevel
        /\ run[i].kind \in {"fast", "limits"} => run[i].loc.level <= cfg.targetLevel
        /\ (run[i].kind = "full" /\ run[i].pc = "done") =>
               run[i].result.finalLevel = cfg.targetLevel

\* A runFullSimulation() that completed the Okta path has returned tier 9.
C33_Witness ==
    \E i \in 1 .. 2 :
        /\ run[i].kind = "full" /\ run[i].pc = "done"
        /\ cfg.targetLevel = 9
        /\ run[i].result.finalLevel = 9
        /\ run[i].result.exquisiteCrystals > 0

\* C34: bounded pity.  In every state of an engine the pity energy of each
\* tier with threshold > 0 is at most that threshold, Hepta and Okta pity are
\* at most the sub-path pity threshold, and Hepta / Okta progress are
\* strictly below the sub-enhancements their paths require.
C34_BoundedPity ==
    LET e == eng[1]
        g == GS(cfg)
    IN  /\ \A T \in DOMAIN e.anvilEnergy :
              Get(g.anvilThresholds, T, 999) > 0 =>
                  e.anvilEnergy[T] <= Get(g.anvilThresholds, T, 999)
        /\ e.heptaPity <= g.heptaOktaAnvilPity
        /\ e.oktaPity <= g.heptaOktaAnvilPity
        /\ e.heptaProgress < g.heptaSubEnhancements
        /\ e.oktaProgress < g.oktaSubEnhancements

\* Back on the Hepta path after failing at tier 9 up to its threshold, with
\* the path's pity at its threshold as well.
C34_Witness ==
    /\ eng[1].level = 7
    /\ Get(eng[1].anvilEnergy, 9, 0) = GS(cfg).anvilThresholds[9]
    /\ eng[1].heptaPity = GS(cfg).heptaOktaAnvilPity
    /\ eng[1].heptaProgress = GS(cfg).heptaSubEnhancements - 1

\* C35: runFast() and runFastWithLimits() work on local scalars only.  Once
\* either has returned, the engine it ran on (each engine here takes one
\* runner call, on the state its constructor left) differs from that state in
\* its generator at most: tier, counters, Hepta / Okta progress and pity and
\* pity energy are what they were before the call.
C35_FastRunnersKeepEngine ==
    \A i \in 1 .. 2 :
        (run[i].kind \in {"fast", "limits"} /\ run[i].pc = "done") =>
            [eng[i] EXCEPT !.rng = Engine(cfg, seed).rng] = Engine(cfg, seed)

\* C36: with useHepta set, a call of step() at tier 7 leaves the tier at 7 or
\* takes it to 8, never to 6, also after tier 7 was re-entered by a downgrade
\* from 8; with useOkta set, a call at tier 8 leaves the tier at 8 or takes
\* it to 9, never to 7.
C36_SubPathDeparture ==
    [][Step =>
          /\ (cfg.useHepta /\ eng[1].level = 7) => eng'[1].level \in {7, 8}
          /\ (cfg.useOkta /\ eng[1].level = 8) => eng'[1].level \in {8, 9}]_vars

\* Tier 7 was re-entered by a failed normal attempt at tier 8, and the Hepta
\* path, walked again from the start, has taken the tier to 8 once more.
C36_Witness ==
    /\ cfg.useHepta /\ ~cfg.useOkta
    /\ last.call = "ok" /\ last.isHeptaOkta /\ last.pathComplete
    /\ eng[1].level = 8
    /\ eng[1].crystals >= 1
    /\ eng[1].exquisiteCrystals
          > GS(cfg).heptaSubEnhancements * GS(cfg).heptaOktaCrystalsPerAttempt

\* C37: the configuration the store holds always has
\* 0 <= startLevel < targetLevel <= 10, startHepta = 0 unless startLevel = 7,
\* and startOkta = 0 unless startLevel = 8.
C37_ConfigInvariant ==
    LET c == store.config
    IN  /\ 0 <= c.startLevel
        /\ c.startLevel < c.targetLevel
        /\ c.targetLevel <= 10
        /\ c.startLevel # 7 => c.startHepta = 0
        /\ c.startLevel # 8 => c.startOkta = 0

\* C38: after any pushes and clears on a RingBuffer of capacity C, length is
\* min(number of pushes since the last clear, C), toArray() is the last
\* `length` pushed items, oldest first, and get(i) is toArray()[i] for
\* 0 <= i < length and undefined for any other index.
C38_RingBuffer ==
    LET n == Len(pushed)
        length == ring.count
    IN  /\ length = (IF n < ring.capacity THEN n ELSE ring.capacity)
        /\ toArray(ring) = SubSeq(pushed, n - length + 1, n)
        /\ \A i \in -1 .. ring.capacity + 1 :
              get(ring, i) = (IF 0 <= i /\ i < length
                              THEN pushed[n - length + 1 + i]
                              ELSE Undefined)

\* A buffer of capacity 3 that has wrapped: more items were pushed than fit,
\* and the oldest slot is not slot 0.
C38_Witness ==
    /\ ring.capacity = 3
    /\ ring.count = ring.capacity
    /\ ring.head # 0
    /\ Len(pushed) > ring.capacity
    /\ pushed[Len(pushed)] # pushed[Len(pushed) - 1]

\* The tier a runner call on engine i has reached: the engine's for
\* runFullSimulation, the local one for runFast.
RunTier(i) == IF run[i].kind = "fast" THEN run[i].loc.level ELSE eng[i].level

\* C39 as stated: under a fair generator runFullSimulation() and runFast()
\* terminate, with the tier at the target and isComplete() true.
C39_Original ==
    (run[1].pc = "loop") ~>
        (/\ run[1].pc = "done"
         /\ RunTier(1) = cfg.targetLevel
         /\ isComplete(cfg, eng[1]))

\* C39: under a fair generator runFullSimulation() and runFast() terminate
\* with the run's tier at the target; after runFullSimulation() isComplete()
\* is true, after runFast(), which advances a local tier only, it is false.
C39_Termination ==
    (run[1].pc = "loop") ~>
        (/\ run[1].pc = "done"
         /\ RunTier(1) = cfg.targetLevel
         /\ isComplete(cfg, eng[1]) <=> run[1].kind = "full")

\* runFast() has returned after a run long enough to fill the counters, from
\* a start two or more tiers below the target.
C39_Witness ==
    /\ run[1].pc = "done" /\ run[1].kind = "fast"
    /\ run[1].loc.level = cfg.targetLevel
    /\ eng[1].level = cfg.startLevel
    /\ run[1].loc.crystals = LiveCap
    /\ run[1].loc.scrolls = LiveCap
    /\ cfg.targetLevel - cfg.startLevel >= 2

\* C40: on a seeded engine, runFullSimulation(), reset() and a second
\* runFullSimulation() return the same Run Totals both times.
C40_ReplayAfterReset ==
    (run[1].pc = "done" /\ run[1].previous # <<>>)
        => run[1].result = run[1].previous[1]

====
